---- MODULE Spec2Model ----
(***************************************************************************)
(* The extension-host bridge of the interactive session feature            *)
(* (MainThreadInteractiveSession): provider registrations, the map of      *)
(* progress callbacks of the replies in flight, and the routing of         *)
(* progress to them; the sessions it prepares; and the editor's hover       *)
(* controller (ModesHoverController).                                      *)
(*                                                                         *)
(* The UI thread is single-threaded: every handler runs to completion, and *)
(* an async function is suspended only at its await.  provideReply is      *)
(* therefore two steps: the part up to the await (ProvideReply), and the   *)
(* continuation that runs when the remote call settles                     *)
(* (SettleInteractiveReply).                                                *)
(***************************************************************************)
EXTENDS Integers, Sequences, FiniteSets, TLC

\* ------------------------------------------------------------------ bounds
\* DisposableStores the screencast toggle creates; mouse-downs without a mouse-up
MaxStores == 3
MaxMouseDowns == 2
MaxCalls == 2
MaxRegs == 2
MaxSessionObjects == 2

\* ------------------------------------------------------------------ inputs
Handles == {1, 2}
SessionIds == {7, 42}
ProviderIds == {"p1", "p2"}
Progresses == {"hi", "yo"}
RemoteErrors == {"E1", "E2"}

\* interactiveSessionContribService.registeredProviders: the ids of the
\* statically contributed providers.
registeredProviders == {"p1"}

\* ToggleScreencastModeAction.disposable is undefined
NoDisposable == 0

\* handles and session ids whose decimal digits run into each other
KeyHandles == {1, 11}
KeySessions == {1, 11}

VARIABLES
    registrations,                   \* _registrations: handle -> unreg
    activeRequestProgressCallbacks,  \* _activeRequestProgressCallbacks: key -> callback
    providers,                       \* the session service's installed providers: unreg -> provider
    disposed,                        \* per unreg ever returned by the service: times dispose() ran
    calls,                           \* provideReply invocations: call -> its record
    lastOp,                          \* the handler that ran last, with what it did
    sessionObjects,                  \* the session objects prepareSession returned: their ids
    releasesSent,                    \* the session ids the remote got a $releaseSession for
    sessionOp,                       \* the prepareSession / session dispose that ran last
    isMouseDown,                     \* ModesHoverController._isMouseDown
    hoverClicked,                    \* _hoverClicked
    isHoverEnabled,                  \* _isHoverEnabled
    isHoverSticky,                   \* _isHoverSticky
    contentWidget,                   \* _contentWidget: null or the widget's visible state
    glyphWidget,                     \* _glyphWidget: null or the widget's visible state
    created,                         \* widget instances created so far, per widget
    toUnhook,                        \* _toUnhook: handlers subscribed, per editor event
    hoverOpts,                       \* the editor's EditorOption.hover
    hasModel,                        \* the editor has a model
    dropDownVisible,                 \* InlineSuggestionHintsContentWidget.dropDownVisible
    hoverOp,                         \* the hover handler that ran last, with what it did
    screencast                       \* ToggleScreencastModeAction.disposable and what is installed

bridgeVars == <<registrations, activeRequestProgressCallbacks, providers, disposed,
                calls, lastOp>>
sessionVars == <<sessionObjects, releasesSent, sessionOp>>
hoverVars == <<isMouseDown, hoverClicked, isHoverEnabled, isHoverSticky, contentWidget,
               glyphWidget, created, toUnhook, hoverOpts, hasModel, dropDownVisible,
               hoverOp>>

screencastVars == <<screencast>>

vars == <<bridgeVars, sessionVars, hoverVars, screencastVars>>

\* ------------------------------------------------------------------ helpers

\* Map.prototype.set / Map.prototype.delete
MapSet(m, k, v) == [x \in DOMAIN m \cup {k} |-> IF x = k THEN v ELSE m[x]]
MapDelete(m, k) == [x \in DOMAIN m \ {k} |-> m[x]]

\* `${handle}_${sessionId}`
\* Variant: the two numbers are joined without the separator.
CompositeKeyWithoutSeparator(handle, sessionId) == ToString(handle) \o ToString(sessionId)

CompositeKey(handle, sessionId) == ToString(handle) \o "_" \o ToString(sessionId)

\* The callback passed to a provideReply invocation is identified with the
\* invocation: call c's callback is c.
KeyOf(c) == CompositeKey(calls[c].handle, calls[c].session)

\* A record of one handler run.
Op(op, handle, session, id, progress, call) ==
    [op |-> op, handle |-> handle, session |-> session, id |-> id,
     progress |-> progress, call |-> call, threw |-> FALSE, error |-> "",
     remoteError |-> "", invoked |-> <<>>, serviceCalls |-> 0, remoteCalls |-> 0,
     disposals |-> 0, unreg |-> 0]

\* IInteractiveSessionService.registerProvider: installs the provider and
\* returns a fresh unregistration handle.
ServiceRegisterProvider(ps, unreg, provider) == MapSet(ps, unreg, provider)

\* dispose() of the unregistration handles in `olds`: the service drops the
\* providers; the count of dispose() runs per handle is kept.
DisposeAll(ps, olds) == [r \in DOMAIN ps \ olds |-> ps[r]]
CountDisposals(d, olds) == [r \in DOMAIN d |-> IF r \in olds THEN d[r] + 1 ELSE d[r]]

\* DisposableMap.set: an entry already stored under the key is disposed, then
\* the value is stored.
DisposableMapSetOld(m, k) == IF k \in DOMAIN m THEN {m[k]} ELSE {}

\* DisposableMap.deleteAndDispose: disposes the entry under the key, if any,
\* and removes it.
DeleteAndDisposeOld(m, k) == IF k \in DOMAIN m THEN {m[k]} ELSE {}

\* DisposableMap.dispose: disposes every entry and clears the map.
DisposableMapDisposeOld(m) == {m[k] : k \in DOMAIN m}

\* ------------------------------------------------------------------ state

\* undefined, as a remote may leave a field of a session
Undefined == "<undefined>"

\* The result of a prepareSession that yields no session object.
NoSession ==
    [defined |-> FALSE, id |-> 0, requesterUsername |-> "", responderUsername |-> "",
     responderAvatarIconUri |-> ""]

SessionOp(op, handle, remote, result, obj) ==
    [op |-> op, handle |-> handle, remote |-> remote, result |-> result, obj |-> obj,
     releases |-> <<>>]

\* ------------------------------------------------------------------ hover controller: values

\* EditorOption.hover, the two fields the controller reads
HoverOptions == [enabled : BOOLEAN, sticky : BOOLEAN]

\* the editor events _hookEvents subscribes to
HoverEvents == {"mouseDown", "mouseUp", "mouseMove", "keyDown", "mouseLeave",
                "didChangeModel", "didScrollChange"}

ContentHoverWidgetID == "ContentHoverWidget.ID"
MarginHoverWidgetID == "MarginHoverWidget.ID"
OtherWidgetID == "other.widget"

\* line numbers of the positions a mouse target can carry; 0 stands for a
\* target without a position
GutterLines == {3, 8}
NoPosition == 0

\* IMouseTarget: type, detail (the widget id of a widget target) and position
MouseTargets ==
    {[type |-> "CONTENT_WIDGET", detail |-> d, position |-> NoPosition] :
        d \in {ContentHoverWidgetID, OtherWidgetID}}
    \cup {[type |-> "OVERLAY_WIDGET", detail |-> d, position |-> NoPosition] :
        d \in {MarginHoverWidgetID, OtherWidgetID}}
    \cup {[type |-> "GUTTER_GLYPH_MARGIN", detail |-> "", position |-> l] :
        l \in GutterLines \cup {NoPosition}}
    \cup {[type |-> "CONTENT_TEXT", detail |-> "", position |-> 3]}

NoTarget == [type |-> "", detail |-> "", position |-> NoPosition]

IsContentHover(target) ==
    target.type = "CONTENT_WIDGET" /\ target.detail = ContentHoverWidgetID

IsMarginHover(target) ==
    target.type = "OVERLAY_WIDGET" /\ target.detail = MarginHoverWidgetID

\* KeyCode.Ctrl, Alt, Meta, Shift, and a key that is none of them
ModifierKeyCodes == {"Ctrl", "Alt", "Meta", "Shift"}
KeyCodes == ModifierKeyCodes \cup {"KeyK"}

\* What softDispatch resolves a key to: nothing, the beginning of a
\* multi-chord keybinding, or a command.
Resolutions ==
    {[defined |-> FALSE, enterMultiChord |-> FALSE, commandId |-> ""],
     [defined |-> TRUE, enterMultiChord |-> TRUE, commandId |-> ""]}
    \cup {[defined |-> TRUE, enterMultiChord |-> FALSE, commandId |-> c] :
            c \in {"editor.action.showOrFocusHover", "editor.action.showHover",
                   "editor.action.other"}}

\* the id under which ShowOrFocusHoverAction is registered
ShowOrFocusHoverActionID == "editor.action.showHover"

KeyboardEvents == [keyCode : KeyCodes, resolved : Resolutions]

NoKey == [keyCode |-> "", resolved |-> [defined |-> FALSE, enterMultiChord |-> FALSE,
                                        commandId |-> ""]]

\* editor.getPosition(): the cursor of an editor that has a model, and null
\* (NoCursor) otherwise
CursorPositions == {[lineNumber |-> 3, column |-> 1], [lineNumber |-> 8, column |-> 5]}
NoCursor == [lineNumber |-> NoPosition, column |-> NoPosition]

\* new Range(startLineNumber, startColumn, endLineNumber, endColumn)
Range(startLineNumber, startColumn, endLineNumber, endColumn) ==
    <<startLineNumber, startColumn, endLineNumber, endColumn>>

\* Selection.isCollapsed as the mouse-move handler reads it through two
\* optional chains: true, false, or undefined
Collapsed == {"true", "false", Undefined}

\* The controller's fields a handler works on, with the widget calls it made.
Ctl ==
    [isMouseDown |-> isMouseDown, hoverClicked |-> hoverClicked,
     content |-> contentWidget, glyph |-> glyphWidget, created |-> created,
     calls |-> {}]

\* The state a handler started in.
Snapshot ==
    [isMouseDown |-> isMouseDown, hoverClicked |-> hoverClicked,
     isHoverEnabled |-> isHoverEnabled, isHoverSticky |-> isHoverSticky,
     content |-> contentWidget, glyph |-> glyphWidget,
     hasModel |-> hasModel, dropDownVisible |-> dropDownVisible]

\* What the handler that ran before this one was: a mouse-down outside both
\* hover widgets, with or without a hide guard in force; a key-down, made
\* while the content hover was visible, of a key that begins a multi-chord
\* keybinding or resolves to the id ShowOrFocusHoverAction registers; or
\* anything else.
Summary(o) ==
    IF o.op = "mouseDown" /\ ~IsContentHover(o.target) /\ ~IsMarginHover(o.target)
    THEN IF \/ o.pre.dropDownVisible
            \/ /\ o.target.type = "OVERLAY_WIDGET"
               /\ o.pre.hoverClicked
               /\ o.pre.content.colorPickerVisible
         THEN "guardedMouseDownOutside"
         ELSE "mouseDownOutside"
    ELSE IF /\ o.op = "keyDown"
            /\ o.pre.content.visible
            /\ \/ o.key.resolved.enterMultiChord
               \/ o.key.resolved.commandId = ShowOrFocusHoverActionID
    THEN "showHoverKeyDown"
    ELSE "other"

\* The record of the handler that ran last: the event and its inputs, the
\* state it started in, and where it returned.
HoverOp(op, target, key, collapsed, flag, exit) ==
    [op |-> op, target |-> target, key |-> key, collapsed |-> collapsed,
     flag |-> flag, exit |-> exit, cursor |-> NoCursor, calls |-> {}, pre |-> Snapshot,
     prev |-> IF op = "init" THEN "other" ELSE Summary(hoverOp)]

\* ------------------------------------------------------------------ hover controller: widgets

\* _contentWidget / _glyphWidget before their creation (null)
NullContentWidget ==
    [exists |-> FALSE, visible |-> FALSE, visibleFromKeyboard |-> FALSE,
     colorPickerVisible |-> FALSE]
NullGlyphWidget == [exists |-> FALSE, visible |-> FALSE, lineNumber |-> NoPosition]

\* ContentHoverController.hide(), through the optional call of the handlers
ContentHide(s) ==
    IF s.content.exists
    THEN [s EXCEPT !.content = [@ EXCEPT !.visible = FALSE, !.visibleFromKeyboard = FALSE,
                                         !.colorPickerVisible = FALSE],
                   !.calls = @ \cup {"content.hide"}]
    ELSE s

\* MarginHoverWidget.hide(), through the optional call of the handlers
GlyphHide(s) ==
    IF s.glyph.exists
    THEN [s EXCEPT !.glyph = [@ EXCEPT !.visible = FALSE, !.lineNumber = NoPosition],
                   !.calls = @ \cup {"glyph.hide"}]
    ELSE s

\* ContentHoverController.maybeShowAt(mouseEvent): the widget either starts
\* showing at the position and answers true, or declines and answers false.
MaybeShowAt(s, accepts) ==
    [s EXCEPT !.content = IF accepts
                          THEN [@ EXCEPT !.visible = TRUE, !.visibleFromKeyboard = FALSE]
                          ELSE @,
              !.calls = @ \cup {"content.maybeShowAt"}]

\* ContentHoverController.startShowingAtRange(range, mode, source, focus): the
\* widget starts showing; the call is recorded with its arguments.
StartShowingAtRange(s, range, mode, source, focus) ==
    [s EXCEPT !.content = [@ EXCEPT !.visible = TRUE,
                                    !.visibleFromKeyboard = (source = "Keyboard")],
              !.calls = @ \cup {"content.startShowingAtRange",
                                "range=" \o ToString(range),
                                "mode=" \o mode,
                                "source=" \o source,
                                "focus=" \o ToString(focus)}]

\* MarginHoverWidget.startShowingAt(lineNumber)
StartShowingAt(s, lineNumber) ==
    [s EXCEPT !.glyph = [@ EXCEPT !.visible = TRUE, !.lineNumber = lineNumber],
              !.calls = @ \cup {"glyph.startShowingAt"}]

\* DisposableStore.clear() and the subscriptions of _hookEvents
UnhookEvents(store) == [e \in HoverEvents |-> 0]

HookEventsWhateverEnabled(store, opts) == [e \in HoverEvents |-> store[e] + 1]

HookEvents(store, opts) ==
    [e \in HoverEvents |->
        IF e \in {"mouseDown", "mouseUp"}
        THEN IF opts.enabled THEN store[e] + 1 ELSE store[e]
        ELSE store[e] + 1]

Init ==
    /\ registrations = <<>>
    /\ activeRequestProgressCallbacks = <<>>
    /\ providers = <<>>
    /\ disposed = <<>>
    /\ calls = <<>>
    /\ lastOp = Op("init", 0, 0, "", "", 0)
    /\ sessionObjects = <<>>
    /\ releasesSent = {}
    /\ sessionOp = SessionOp("init", 0, NoSession, NoSession, 0)
    /\ isMouseDown = FALSE
    /\ hoverClicked = FALSE
    /\ hoverOpts = [enabled |-> TRUE, sticky |-> TRUE]
    /\ isHoverEnabled = hoverOpts.enabled
    /\ isHoverSticky = hoverOpts.sticky
    /\ contentWidget = NullContentWidget
    /\ glyphWidget = NullGlyphWidget
    /\ created = [content |-> 0, glyph |-> 0]
    /\ toUnhook = HookEvents(UnhookEvents(<<>>), hoverOpts)
    /\ hasModel = TRUE
    /\ dropDownVisible = FALSE
    /\ hoverOp = HoverOp("init", NoTarget, NoKey, Undefined, FALSE, "")
    /\ screencast = [disposable |-> NoDisposable, sets |-> <<>>, stores |-> 0,
                     scheduled |-> {}, op |-> "init",
                     pre |-> [disposable |-> NoDisposable, sets |-> {}, stores |-> 0],
                     runPre |-> <<>>]

\* ------------------------------------------------------------------ actions

\* Variant: the declaration check of lines 38-41 is missing.
RegisterWithoutDeclarationCheck(handle, id, implementsProgress) ==
    /\ Cardinality(DOMAIN disposed) < MaxRegs
    /\ LET unreg == Cardinality(DOMAIN disposed) + 1
           provider == [id |-> id, handle |-> handle]
           olds == DisposableMapSetOld(registrations, handle)
       IN  /\ providers' = DisposeAll(ServiceRegisterProvider(providers, unreg, provider), olds)
           /\ disposed' = CountDisposals(MapSet(disposed, unreg, 0), olds)
           /\ registrations' = MapSet(registrations, handle, unreg)
    /\ lastOp' = [Op("register", handle, 0, id, "", 0) EXCEPT
                     !.serviceCalls = 1,
                     !.unreg = Cardinality(DOMAIN disposed) + 1,
                     !.disposals = Cardinality(DisposableMapSetOld(registrations, handle))]
    /\ UNCHANGED <<activeRequestProgressCallbacks, calls>>

\* $registerInteractiveSessionProvider(handle, id, implementsProgress).
\* implementsProgress is only forwarded to the service as
\* progressiveRenderingEnabled; no handler of the bridge reads it back.
RegisterInteractiveSessionProvider(handle, id, implementsProgress) ==
    IF id \notin registeredProviders
    THEN /\ lastOp' = [Op("register", handle, 0, id, "", 0) EXCEPT
                          !.threw = TRUE, !.error = "must be declared"]
         /\ UNCHANGED <<registrations, activeRequestProgressCallbacks, providers,
                        disposed, calls>>
    ELSE /\ Cardinality(DOMAIN disposed) < MaxRegs
         /\ LET unreg == Cardinality(DOMAIN disposed) + 1
                provider == [id |-> id, handle |-> handle]
                olds == DisposableMapSetOld(registrations, handle)
            IN  /\ providers' = DisposeAll(ServiceRegisterProvider(providers, unreg, provider), olds)
                /\ disposed' = CountDisposals(MapSet(disposed, unreg, 0), olds)
                /\ registrations' = MapSet(registrations, handle, unreg)
         /\ lastOp' = [Op("register", handle, 0, id, "", 0) EXCEPT
                          !.serviceCalls = 1,
                          !.unreg = Cardinality(DOMAIN disposed) + 1,
                          !.disposals = Cardinality(DisposableMapSetOld(registrations, handle))]
         /\ UNCHANGED <<activeRequestProgressCallbacks, calls>>

\* Variant: the registration is disposed but its entry is left in the map.
UnregisterWithoutDelete(handle) ==
    LET olds == DeleteAndDisposeOld(registrations, handle)
    IN  /\ providers' = DisposeAll(providers, olds)
        /\ disposed' = CountDisposals(disposed, olds)
        /\ lastOp' = [Op("unregister", handle, 0, "", "", 0) EXCEPT
                         !.disposals = Cardinality(olds)]
        /\ UNCHANGED <<registrations, activeRequestProgressCallbacks, calls>>

\* $unregisterInteractiveSessionProvider(handle)
UnregisterInteractiveSessionProvider(handle) ==
    LET olds == DeleteAndDisposeOld(registrations, handle)
    IN  /\ providers' = DisposeAll(providers, olds)
        /\ disposed' = CountDisposals(disposed, olds)
        /\ registrations' = MapDelete(registrations, handle)
        /\ lastOp' = [Op("unregister", handle, 0, "", "", 0) EXCEPT
                         !.disposals = Cardinality(olds)]
        /\ UNCHANGED <<activeRequestProgressCallbacks, calls>>

\* Variant: dispose() tears down _inputRegistrations only.
DisposeInputRegistrationsOnly ==
    /\ lastOp' = Op("dispose", 0, 0, "", "", 0)
    /\ UNCHANGED <<registrations, activeRequestProgressCallbacks, providers,
                   disposed, calls>>

\* dispose(): _inputRegistrations holds nothing (no handler of this class
\* writes it); every registration is disposed and the map is cleared.
Dispose ==
    LET olds == DisposableMapDisposeOld(registrations)
    IN  /\ providers' = DisposeAll(providers, olds)
        /\ disposed' = CountDisposals(disposed, olds)
        /\ registrations' = <<>>
        /\ lastOp' = [Op("dispose", 0, 0, "", "", 0) EXCEPT
                         !.disposals = Cardinality(olds)]
        /\ UNCHANGED <<activeRequestProgressCallbacks, calls>>

\* a ?? b
NullishCoalesce(a, b) == IF a = Undefined THEN b ELSE a

\* What the remote may answer to $prepareInteractiveSession: nothing, or a
\* session.
RemoteSessions ==
    {NoSession} \cup
    [defined : {TRUE}, id : SessionIds,
     requesterUsername : {Undefined, "", "alice"},
     responderUsername : {Undefined, "bot"},
     responderAvatarIconUri : {Undefined, "remote-icon"}]

\* Variant: the defaults are applied with || instead of ??.
PrepareSessionWithOr(unreg, remote) ==
    /\ unreg \in DOMAIN providers
    /\ remote.defined => Len(sessionObjects) < MaxSessionObjects
    /\ LET handle == providers[unreg].handle
           result ==
               IF ~remote.defined THEN NoSession
               ELSE [defined |-> TRUE,
                     id |-> remote.id,
                     requesterUsername |->
                         IF remote.requesterUsername \in {Undefined, ""}
                         THEN "Username" ELSE remote.requesterUsername,
                     responderUsername |->
                         IF remote.responderUsername \in {Undefined, ""}
                         THEN "Response" ELSE remote.responderUsername,
                     responderAvatarIconUri |->
                         IF remote.responderAvatarIconUri # Undefined
                         THEN remote.responderAvatarIconUri ELSE "extension-icon"]
       IN  /\ sessionObjects' = IF remote.defined
                                THEN Append(sessionObjects, remote.id)
                                ELSE sessionObjects
           /\ sessionOp' = SessionOp("prepareSession", handle, remote, result,
                                     IF remote.defined THEN Len(sessionObjects) + 1 ELSE 0)
    /\ UNCHANGED releasesSent

\* prepareSession of the provider installed as `unreg`, with the remote's
\* answer to $prepareInteractiveSession(handle, ...).  Nothing is written
\* before the await, so the call and its continuation are one step.
\* requesterAvatarIconUri is passed through URI.revive and is left out.
PrepareSession(unreg, remote) ==
    /\ unreg \in DOMAIN providers
    /\ remote.defined => Len(sessionObjects) < MaxSessionObjects
    /\ LET handle == providers[unreg].handle
           result ==
               IF ~remote.defined THEN NoSession
               ELSE [defined |-> TRUE,
                     id |-> remote.id,
                     requesterUsername |->
                         NullishCoalesce(remote.requesterUsername, "Username"),
                     responderUsername |->
                         NullishCoalesce(remote.responderUsername, "Response"),
                     responderAvatarIconUri |->
                         IF remote.responderAvatarIconUri # Undefined
                         THEN remote.responderAvatarIconUri ELSE "extension-icon"]
       IN  /\ sessionObjects' = IF remote.defined
                                THEN Append(sessionObjects, remote.id)
                                ELSE sessionObjects
           /\ sessionOp' = SessionOp("prepareSession", handle, remote, result,
                                     IF remote.defined THEN Len(sessionObjects) + 1 ELSE 0)
    /\ UNCHANGED releasesSent

\* dispose() of the session object o that a prepareSession returned:
\* this._proxy.$releaseSession(session.id).
DisposeSession(o) ==
    /\ o \in 1..Len(sessionObjects)
    /\ releasesSent' = releasesSent \cup {sessionObjects[o]}
    /\ sessionOp' = [SessionOp("disposeSession", 0, NoSession, NoSession, o) EXCEPT
                        !.releases = <<sessionObjects[o]>>]
    /\ UNCHANGED sessionObjects

\* Variant: a callback already stored under the key is kept.
ProvideReplyKeepsFirstCallback(unreg, sessionId) ==
    /\ unreg \in DOMAIN providers
    /\ Cardinality(DOMAIN calls) < MaxCalls
    /\ LET handle == providers[unreg].handle
           c == Cardinality(DOMAIN calls) + 1
           id == CompositeKey(handle, sessionId)
       IN  /\ activeRequestProgressCallbacks' =
                  IF id \in DOMAIN activeRequestProgressCallbacks
                  THEN activeRequestProgressCallbacks
                  ELSE MapSet(activeRequestProgressCallbacks, id, c)
           /\ calls' = MapSet(calls, c,
                  [handle |-> handle, session |-> sessionId,
                   remote |-> "pending", remoteCalls |-> 1,
                   state |-> "pending", settledOver |-> FALSE])
           /\ lastOp' = [Op("provideReply", handle, sessionId, "", "", c) EXCEPT
                            !.remoteCalls = 1]
    /\ UNCHANGED <<registrations, providers, disposed>>

\* provideReply of the provider installed as `unreg`, up to its await: the
\* callback is stored under the key and the remote call is issued.
ProvideReply(unreg, sessionId) ==
    /\ unreg \in DOMAIN providers
    /\ Cardinality(DOMAIN calls) < MaxCalls
    /\ LET handle == providers[unreg].handle
           c == Cardinality(DOMAIN calls) + 1
           id == CompositeKey(handle, sessionId)
       IN  /\ activeRequestProgressCallbacks' = MapSet(activeRequestProgressCallbacks, id, c)
           /\ calls' = MapSet(calls, c,
                  [handle |-> handle, session |-> sessionId,
                   remote |-> "pending", remoteCalls |-> 1,
                   state |-> "pending", settledOver |-> FALSE])
           /\ lastOp' = [Op("provideReply", handle, sessionId, "", "", c) EXCEPT
                            !.remoteCalls = 1]
    /\ UNCHANGED <<registrations, providers, disposed>>

\* Variant: the key is deleted after the await instead of in a finally
\* block, so a rejection skips the delete.
SettleWithoutFinally(c, outcome, err) ==
    /\ c \in DOMAIN calls
    /\ calls[c].remote = "pending"
    /\ LET id == KeyOf(c)
           e == IF outcome = "rejected" THEN err ELSE ""
       IN  /\ activeRequestProgressCallbacks' =
                  IF outcome = "rejected"
                  THEN activeRequestProgressCallbacks
                  ELSE MapDelete(activeRequestProgressCallbacks, id)
           /\ calls' = [x \in DOMAIN calls |->
                  IF x = c
                  THEN [calls[x] EXCEPT !.remote = outcome, !.state = outcome]
                  ELSE IF KeyOf(x) = id /\ calls[x].remote = "pending"
                       THEN [calls[x] EXCEPT !.settledOver = TRUE]
                       ELSE calls[x]]
           /\ lastOp' = [Op("settle", calls[c].handle, calls[c].session, "", "", c) EXCEPT
                            !.threw = (outcome = "rejected"), !.remoteError = e,
                            !.error = e]
    /\ UNCHANGED <<registrations, providers, disposed>>

\* Variant: a rejected remote call is issued once more instead of
\* propagating.
SettleWithRetry(c, outcome, err) ==
    /\ c \in DOMAIN calls
    /\ calls[c].remote = "pending"
    /\ LET id == KeyOf(c)
       IN  IF outcome = "rejected" /\ calls[c].remoteCalls < 2
           THEN /\ calls' = [calls EXCEPT ![c].remoteCalls = @ + 1]
                /\ lastOp' = [Op("settle", calls[c].handle, calls[c].session, "", "", c) EXCEPT
                                 !.remoteError = err, !.remoteCalls = 1]
                /\ UNCHANGED activeRequestProgressCallbacks
           ELSE /\ activeRequestProgressCallbacks' = MapDelete(activeRequestProgressCallbacks, id)
                /\ calls' = [x \in DOMAIN calls |->
                       IF x = c
                       THEN [calls[x] EXCEPT !.remote = outcome, !.state = outcome]
                       ELSE IF KeyOf(x) = id /\ calls[x].remote = "pending"
                            THEN [calls[x] EXCEPT !.settledOver = TRUE]
                            ELSE calls[x]]
                /\ lastOp' = [Op("settle", calls[c].handle, calls[c].session, "", "", c) EXCEPT
                                 !.threw = (outcome = "rejected"),
                                 !.remoteError = IF outcome = "rejected" THEN err ELSE "",
                                 !.error = IF outcome = "rejected" THEN err ELSE ""]
    /\ UNCHANGED <<registrations, providers, disposed>>

\* The remote $provideInteractiveReply of call c settles and provideReply's
\* continuation runs: the finally block deletes the key, then the call
\* resolves with the response or rejects with the remote's error.
\* Variant: the finally block deletes the entry only if it still holds the
\* settling call's own callback.
SettleDeletingOwnEntry(c, outcome, err) ==
    /\ c \in DOMAIN calls
    /\ calls[c].remote = "pending"
    /\ LET id == KeyOf(c)
           e == IF outcome = "rejected" THEN err ELSE ""
       IN  /\ activeRequestProgressCallbacks' =
                  IF /\ id \in DOMAIN activeRequestProgressCallbacks
                     /\ activeRequestProgressCallbacks[id] = c
                  THEN MapDelete(activeRequestProgressCallbacks, id)
                  ELSE activeRequestProgressCallbacks
           /\ calls' = [x \in DOMAIN calls |->
                  IF x = c
                  THEN [calls[x] EXCEPT !.remote = outcome, !.state = outcome]
                  ELSE IF KeyOf(x) = id /\ calls[x].remote = "pending"
                       THEN [calls[x] EXCEPT !.settledOver = TRUE]
                       ELSE calls[x]]
           /\ lastOp' = [Op("settle", calls[c].handle, calls[c].session, "", "", c) EXCEPT
                            !.threw = (outcome = "rejected"), !.remoteError = e,
                            !.error = e]
    /\ UNCHANGED <<registrations, providers, disposed>>

SettleInteractiveReply(c, outcome, err) ==
    /\ c \in DOMAIN calls
    /\ calls[c].remote = "pending"
    /\ LET id == KeyOf(c)
           e == IF outcome = "rejected" THEN err ELSE ""
       IN  /\ activeRequestProgressCallbacks' = MapDelete(activeRequestProgressCallbacks, id)
           /\ calls' = [x \in DOMAIN calls |->
                  IF x = c
                  THEN [calls[x] EXCEPT !.remote = outcome, !.state = outcome]
                  ELSE IF KeyOf(x) = id /\ calls[x].remote = "pending"
                       THEN [calls[x] EXCEPT !.settledOver = TRUE]
                       ELSE calls[x]]
           /\ lastOp' = [Op("settle", calls[c].handle, calls[c].session, "", "", c) EXCEPT
                            !.threw = (outcome = "rejected"), !.remoteError = e,
                            !.error = e]
    /\ UNCHANGED <<registrations, providers, disposed>>

\* Variant: the key is built as `${sessionId}_${handle}`.
AcceptWithSwappedKey(handle, sessionId, progress) ==
    LET id == CompositeKey(sessionId, handle)
    IN  /\ lastOp' = [Op("accept", handle, sessionId, "", progress, 0) EXCEPT
                         !.invoked =
                             IF id \in DOMAIN activeRequestProgressCallbacks
                             THEN <<[call |-> activeRequestProgressCallbacks[id],
                                     progress |-> progress]>>
                             ELSE <<>>]
        /\ UNCHANGED <<registrations, activeRequestProgressCallbacks, providers,
                       disposed, calls>>

\* Variant: the looked-up callback is called without the optional call
\* (get(id)(progress)), which throws a TypeError when there is no entry.
AcceptWithoutOptionalCall(handle, sessionId, progress) ==
    LET id == CompositeKey(handle, sessionId)
    IN  /\ lastOp' =
               IF id \in DOMAIN activeRequestProgressCallbacks
               THEN [Op("accept", handle, sessionId, "", progress, 0) EXCEPT
                        !.invoked = <<[call |-> activeRequestProgressCallbacks[id],
                                       progress |-> progress]>>]
               ELSE [Op("accept", handle, sessionId, "", progress, 0) EXCEPT
                        !.threw = TRUE, !.error = "TypeError"]
        /\ UNCHANGED <<registrations, activeRequestProgressCallbacks, providers,
                       disposed, calls>>

\* $acceptInteractiveResponseProgress(handle, sessionId, progress)
AcceptInteractiveResponseProgress(handle, sessionId, progress) ==
    LET id == CompositeKey(handle, sessionId)
    IN  /\ lastOp' = [Op("accept", handle, sessionId, "", progress, 0) EXCEPT
                         !.invoked =
                             IF id \in DOMAIN activeRequestProgressCallbacks
                             THEN <<[call |-> activeRequestProgressCallbacks[id],
                                     progress |-> progress]>>
                             ELSE <<>>]
        /\ UNCHANGED <<registrations, activeRequestProgressCallbacks, providers,
                       disposed, calls>>

\* ------------------------------------------------------------------ hover controller: handlers

GetOrCreateContentWidgetAlways(s) ==
    [s EXCEPT !.content = [NullContentWidget EXCEPT !.exists = TRUE],
              !.created = [@ EXCEPT !.content = @ + 1],
              !.calls = @ \cup {"content.create"}]

GetOrCreateContentWidget(s) ==
    IF ~s.content.exists
    THEN [s EXCEPT !.content = [NullContentWidget EXCEPT !.exists = TRUE],
                   !.created = [@ EXCEPT !.content = @ + 1],
                   !.calls = @ \cup {"content.create"}]
    ELSE s

HideGuardWithoutDropDown(s) ==
    s.isMouseDown /\ s.hoverClicked /\ s.content.exists /\ s.content.colorPickerVisible

\* the condition under which _hideWidgets returns without hiding
HideGuard(s) ==
    \/ s.isMouseDown /\ s.hoverClicked /\ s.content.exists /\ s.content.colorPickerVisible
    \/ dropDownVisible

HideWidgetsWithoutContentHide(s) ==
    IF HideGuard(s) THEN s ELSE GlyphHide([s EXCEPT !.hoverClicked = FALSE])

HideWidgets(s) ==
    IF HideGuard(s)
    THEN s
    ELSE ContentHide(GlyphHide([s EXCEPT !.hoverClicked = FALSE]))

\* The handler writes the fields back and leaves the record of its run.
Commit(s, op) ==
    /\ isMouseDown' = s.isMouseDown
    /\ hoverClicked' = s.hoverClicked
    /\ contentWidget' = s.content
    /\ glyphWidget' = s.glyph
    /\ created' = s.created
    /\ hoverOp' = [op EXCEPT !.calls = s.calls]

\* The targets the pointer can be on: a hover widget only while it is shown,
\* a position only in an editor that has a model.
TargetPossible(target) ==
    /\ IsContentHover(target) => contentWidget.exists /\ contentWidget.visible
    /\ IsMarginHover(target) => glyphWidget.exists /\ glyphWidget.visible
    /\ target.position # NoPosition => hasModel

MouseDownReturningOnAnyOverlay(target) ==
    IF IsContentHover(target)
    THEN [Ctl EXCEPT !.isMouseDown = TRUE, !.hoverClicked = TRUE]
    ELSE IF target.type = "OVERLAY_WIDGET"
    THEN [Ctl EXCEPT !.isMouseDown = TRUE]
    ELSE HideWidgets([Ctl EXCEPT !.isMouseDown = TRUE, !.hoverClicked = FALSE])

MouseDownHidingOnHover(target) ==
    IF IsContentHover(target)
    THEN HideWidgets([Ctl EXCEPT !.isMouseDown = TRUE, !.hoverClicked = TRUE])
    ELSE IF IsMarginHover(target)
    THEN [Ctl EXCEPT !.isMouseDown = TRUE]
    ELSE HideWidgets(IF target.type # "OVERLAY_WIDGET"
                     THEN [Ctl EXCEPT !.isMouseDown = TRUE, !.hoverClicked = FALSE]
                     ELSE [Ctl EXCEPT !.isMouseDown = TRUE])

\* _onEditorMouseDown: the fields it leaves
MouseDown(target) ==
    IF IsContentHover(target)
    THEN [Ctl EXCEPT !.isMouseDown = TRUE, !.hoverClicked = TRUE]
    ELSE IF IsMarginHover(target)
    THEN [Ctl EXCEPT !.isMouseDown = TRUE]
    ELSE HideWidgets(IF target.type # "OVERLAY_WIDGET"
                     THEN [Ctl EXCEPT !.isMouseDown = TRUE, !.hoverClicked = FALSE]
                     ELSE [Ctl EXCEPT !.isMouseDown = TRUE])

OnEditorMouseDown(target) ==
    /\ toUnhook["mouseDown"] > 0
    /\ TargetPossible(target)
    /\ Commit(MouseDown(target), HoverOp("mouseDown", target, NoKey, Undefined, FALSE, ""))
    /\ UNCHANGED <<isHoverEnabled, isHoverSticky, toUnhook, hoverOpts, hasModel,
                   dropDownVisible>>

OnEditorMouseUp ==
    /\ toUnhook["mouseUp"] > 0
    /\ Commit([Ctl EXCEPT !.isMouseDown = FALSE],
              HoverOp("mouseUp", NoTarget, NoKey, Undefined, FALSE, ""))
    /\ UNCHANGED <<isHoverEnabled, isHoverSticky, toUnhook, hoverOpts, hasModel,
                   dropDownVisible>>

MouseLeaveIgnoringRelatedTarget(relatedInside) == HideWidgets(Ctl)

\* _onEditorMouseLeave: the fields it leaves; relatedInside is the answer of
\* _contentWidget.containsNode(relatedTarget)
MouseLeave(relatedInside) ==
    IF contentWidget.exists /\ relatedInside THEN Ctl ELSE HideWidgets(Ctl)

OnEditorMouseLeave(relatedInside) ==
    /\ toUnhook["mouseLeave"] > 0
    /\ relatedInside => contentWidget.exists /\ contentWidget.visible
    /\ Commit(MouseLeave(relatedInside),
              HoverOp("mouseLeave", NoTarget, NoKey, Undefined, relatedInside, ""))
    /\ UNCHANGED <<isHoverEnabled, isHoverSticky, toUnhook, hoverOpts, hasModel,
                   dropDownVisible>>

MouseMoveExitWithoutStickyReturn(target, collapsed, accepts) ==
    IF isMouseDown /\ hoverClicked THEN "return@145"
    ELSE IF isHoverSticky /\ collapsed # "true" THEN "return@155"
    ELSE IF /\ ~isHoverSticky /\ IsContentHover(target)
            /\ contentWidget.exists /\ contentWidget.colorPickerVisible THEN "return@163"
    ELSE IF isHoverSticky /\ IsMarginHover(target) THEN "return@168"
    ELSE IF /\ isHoverSticky
            /\ contentWidget.exists /\ contentWidget.visibleFromKeyboard THEN "return@174"
    ELSE IF ~isHoverEnabled THEN "return@179"
    ELSE IF accepts THEN "return@186"
    ELSE IF target.type = "GUTTER_GLYPH_MARGIN" /\ target.position # NoPosition
         THEN "return@195"
    ELSE "end@198"

\* _onEditorMouseMove: the statement at which the handler ends
MouseMoveExit(target, collapsed, accepts) ==
    IF isMouseDown /\ hoverClicked THEN "return@145"
    ELSE IF isHoverSticky /\ IsContentHover(target) THEN "return@150"
    ELSE IF isHoverSticky /\ collapsed # "true" THEN "return@155"
    ELSE IF /\ ~isHoverSticky /\ IsContentHover(target)
            /\ contentWidget.exists /\ contentWidget.colorPickerVisible THEN "return@163"
    ELSE IF isHoverSticky /\ IsMarginHover(target) THEN "return@168"
    ELSE IF /\ isHoverSticky
            /\ contentWidget.exists /\ contentWidget.visibleFromKeyboard THEN "return@174"
    ELSE IF ~isHoverEnabled THEN "return@179"
    ELSE IF accepts THEN "return@186"
    ELSE IF target.type = "GUTTER_GLYPH_MARGIN" /\ target.position # NoPosition
         THEN "return@195"
    ELSE "end@198"

EarlyReturns == {"return@145", "return@150", "return@155", "return@163", "return@168",
                 "return@174"}

MouseMoveGlyphOverShownContent(target, accepts, exit) ==
    IF exit \in EarlyReturns THEN Ctl
    ELSE IF exit = "return@179" THEN HideWidgets(Ctl)
    ELSE IF exit = "return@186"
    THEN GlyphHide(MaybeShowAt(GetOrCreateContentWidget(Ctl), accepts))
    ELSE IF exit = "return@195"
    THEN LET s == MaybeShowAt(GetOrCreateContentWidget(Ctl), accepts)
             g == IF ~s.glyph.exists
                  THEN [s EXCEPT !.glyph = [NullGlyphWidget EXCEPT !.exists = TRUE],
                                 !.created = [@ EXCEPT !.glyph = @ + 1],
                                 !.calls = @ \cup {"glyph.create"}]
                  ELSE s
         IN StartShowingAt(g, target.position)
    ELSE HideWidgets(MaybeShowAt(GetOrCreateContentWidget(Ctl), accepts))

MouseMoveKeepingGlyph(target, accepts, exit) ==
    IF exit \in EarlyReturns THEN Ctl
    ELSE IF exit = "return@179" THEN HideWidgets(Ctl)
    ELSE IF exit = "return@186"
    THEN MaybeShowAt(GetOrCreateContentWidget(Ctl), accepts)
    ELSE IF exit = "return@195"
    THEN LET s == ContentHide(MaybeShowAt(GetOrCreateContentWidget(Ctl), accepts))
             g == IF ~s.glyph.exists
                  THEN [s EXCEPT !.glyph = [NullGlyphWidget EXCEPT !.exists = TRUE],
                                 !.created = [@ EXCEPT !.glyph = @ + 1],
                                 !.calls = @ \cup {"glyph.create"}]
                  ELSE s
         IN StartShowingAt(g, target.position)
    ELSE HideWidgets(MaybeShowAt(GetOrCreateContentWidget(Ctl), accepts))

\* _onEditorMouseMove: the fields it leaves, given where it ends
MouseMove(target, accepts, exit) ==
    IF exit \in EarlyReturns THEN Ctl
    ELSE IF exit = "return@179" THEN HideWidgets(Ctl)
    ELSE IF exit = "return@186"
    THEN GlyphHide(MaybeShowAt(GetOrCreateContentWidget(Ctl), accepts))
    ELSE IF exit = "return@195"
    THEN LET s == ContentHide(MaybeShowAt(GetOrCreateContentWidget(Ctl), accepts))
             g == IF ~s.glyph.exists
                  THEN [s EXCEPT !.glyph = [NullGlyphWidget EXCEPT !.exists = TRUE],
                                 !.created = [@ EXCEPT !.glyph = @ + 1],
                                 !.calls = @ \cup {"glyph.create"}]
                  ELSE s
         IN StartShowingAt(g, target.position)
    ELSE HideWidgets(MaybeShowAt(GetOrCreateContentWidget(Ctl), accepts))

\* accepts is the answer of maybeShowAt should the handler ask; the widget
\* shows nothing in an editor without a model.
OnEditorMouseMove(target, collapsed, accepts) ==
    /\ toUnhook["mouseMove"] > 0
    /\ TargetPossible(target)
    /\ accepts => hasModel
    /\ LET exit == MouseMoveExit(target, collapsed, accepts)
       IN Commit(MouseMove(target, accepts, exit),
                 HoverOp("mouseMove", target, NoKey, collapsed, accepts, exit))
    /\ UNCHANGED <<isHoverEnabled, isHoverSticky, toUnhook, hoverOpts, hasModel,
                   dropDownVisible>>

\* mightTriggerFocus of _onKeyDown
MightTriggerFocus(key) ==
    /\ key.resolved.defined
    /\ \/ key.resolved.enterMultiChord
       \/ /\ key.resolved.commandId = "editor.action.showOrFocusHover"
          /\ contentWidget.exists /\ contentWidget.visible

KeyDownWithoutModifierTest(key) ==
    IF ~hasModel THEN Ctl
    ELSE IF ~MightTriggerFocus(key) THEN HideWidgets(Ctl)
    ELSE Ctl

\* _onKeyDown: the fields it leaves
KeyDown(key) ==
    IF ~hasModel THEN Ctl
    ELSE IF key.keyCode \notin ModifierKeyCodes /\ ~MightTriggerFocus(key)
    THEN HideWidgets(Ctl)
    ELSE Ctl

OnKeyDown(key) ==
    /\ toUnhook["keyDown"] > 0
    /\ Commit(KeyDown(key), HoverOp("keyDown", NoTarget, key, Undefined, FALSE, ""))
    /\ UNCHANGED <<isHoverEnabled, isHoverSticky, toUnhook, hoverOpts, hasModel,
                   dropDownVisible>>

\* _onEditorScrollChanged
OnEditorScrollChangedTopOnly(scrollTopChanged, scrollLeftChanged) ==
    /\ toUnhook["didScrollChange"] > 0
    /\ Commit(IF scrollTopChanged THEN HideWidgets(Ctl) ELSE Ctl,
              HoverOp("scrollChange", NoTarget, NoKey, Undefined,
                      scrollTopChanged \/ scrollLeftChanged, ""))
    /\ UNCHANGED <<isHoverEnabled, isHoverSticky, toUnhook, hoverOpts, hasModel,
                   dropDownVisible>>

OnEditorScrollChanged(scrollTopChanged, scrollLeftChanged) ==
    /\ toUnhook["didScrollChange"] > 0
    /\ Commit(IF scrollTopChanged \/ scrollLeftChanged THEN HideWidgets(Ctl) ELSE Ctl,
              HoverOp("scrollChange", NoTarget, NoKey, Undefined,
                      scrollTopChanged \/ scrollLeftChanged, ""))
    /\ UNCHANGED <<isHoverEnabled, isHoverSticky, toUnhook, hoverOpts, hasModel,
                   dropDownVisible>>

\* hideWidgetsEventHandler, subscribed to onDidChangeModel: the editor's
\* model is replaced by another model or by none
OnDidChangeModel(model) ==
    /\ toUnhook["didChangeModel"] > 0
    /\ hasModel' = model
    /\ Commit(HideWidgets(Ctl), HoverOp("modelChange", NoTarget, NoKey, Undefined, model, ""))
    /\ UNCHANGED <<isHoverEnabled, isHoverSticky, toUnhook, hoverOpts, dropDownVisible>>

\* The handler of onDidChangeConfiguration: the editor's hover option becomes
\* opts; hasChanged is the answer of e.hasChanged(EditorOption.hover), true
\* whenever one of the two fields changed and possibly when only another
\* field of the option did.
OnDidChangeConfiguration(opts, hasChanged) ==
    /\ opts # hoverOpts => hasChanged
    /\ hoverOpts' = opts
    /\ IF hasChanged
       THEN /\ toUnhook' = HookEvents(UnhookEvents(toUnhook), opts)
            /\ isHoverEnabled' = opts.enabled
            /\ isHoverSticky' = opts.sticky
       ELSE UNCHANGED <<toUnhook, isHoverEnabled, isHoverSticky>>
    /\ Commit(Ctl, HoverOp("configurationChange", NoTarget, NoKey, Undefined,
                           hasChanged, ""))
    /\ UNCHANGED <<hasModel, dropDownVisible>>

ShowHoverWithoutFocusing(position, focus) ==
    IF ~hasModel THEN Ctl
    ELSE StartShowingAtRange(GetOrCreateContentWidget(Ctl),
                             Range(position.lineNumber, position.column,
                                   position.lineNumber, position.column),
                             "Immediate", "Keyboard", focus)

\* ShowOrFocusHoverAction.run: the fields it leaves; position is
\* editor.getPosition()
ShowOrFocusHoverRun(position, focus) ==
    IF ~hasModel THEN Ctl
    ELSE IF contentWidget.exists /\ contentWidget.visible
    THEN [Ctl EXCEPT !.calls = {"content.focus"}]
    ELSE StartShowingAtRange(GetOrCreateContentWidget(Ctl),
                             Range(position.lineNumber, position.column,
                                   position.lineNumber, position.column),
                             "Immediate", "Keyboard", focus)

\* ShowOrFocusHoverAction.run, with focus computed from the accessibility
\* support option and the action's argument
ShowOrFocusHover(position, accessibilityEnabled, argsFocus) ==
    /\ position = NoCursor <=> ~hasModel
    /\ Commit(ShowOrFocusHoverRun(position, accessibilityEnabled \/ argsFocus),
              [HoverOp("showOrFocusHover", NoTarget, NoKey, Undefined,
                       accessibilityEnabled \/ argsFocus, "")
                  EXCEPT !.cursor = position])
    /\ UNCHANGED <<isHoverEnabled, isHoverSticky, toUnhook, hoverOpts, hasModel,
                   dropDownVisible>>

\* The color picker of the shown content hover opens or closes.
ColorPickerChanged ==
    /\ contentWidget.exists /\ contentWidget.visible
    /\ Commit([Ctl EXCEPT !.content = [@ EXCEPT !.colorPickerVisible = ~@]],
              HoverOp("colorPicker", NoTarget, NoKey, Undefined, FALSE, ""))
    /\ UNCHANGED <<isHoverEnabled, isHoverSticky, toUnhook, hoverOpts, hasModel,
                   dropDownVisible>>

\* The inline-suggestion dropdown opens or closes.
DropDownChanged ==
    /\ dropDownVisible' = ~dropDownVisible
    /\ Commit(Ctl, HoverOp("dropDown", NoTarget, NoKey, Undefined, FALSE, ""))
    /\ UNCHANGED <<isHoverEnabled, isHoverSticky, toUnhook, hoverOpts, hasModel>>

\* The bridge's registrations, replies and progress.
\* ------------------------------------------------------------------ screencast mode

\* the keyboard marker is emptied by the key-down made once length exceeds this
MaxKeysShown == 20

\* The key-down events told apart by what the handler tests: key is
\* 'Process' and whether its code includes 'Key'; the key resolves to a
\* cursor move that the configuration hides; the key is shown (it resolves to
\* a command, or not only shortcuts are shown); the key empties the marker
\* (a modifier is held, or it is Backspace, Escape or an arrow key).
ScreencastKeyDowns ==
    [process : BOOLEAN, codeIncludesKey : BOOLEAN, hiddenCursorMove : BOOLEAN,
     shown : BOOLEAN, clears : BOOLEAN]

\* What one run of the action that turns the mode on installs: the mouse
\* marker (hidden), no mouse-move listener yet, the keyboard marker's closure
\* variables length and composing.
NewScreencastSet ==
    [display |-> "none", scale |-> "1", moveListeners |-> 0, length |-> 0,
     composing |-> FALSE]

\* disposables.dispose(): the markers are removed and the emitters disposed
\* with every listener on them, those of the pending mouse-down included
DisposeStore(sets, id) == [i \in DOMAIN sets \ {id} |-> sets[i]]

\* the overlays and listeners of a new DisposableStore are installed
InstallStore(sets, id) ==
    [i \in DOMAIN sets \cup {id} |-> IF i = id THEN NewScreencastSet ELSE sets[i]]

\* The toggle is read as on, and each store that is installed.
ScreencastOn(sc) == sc.disposable # NoDisposable
InstalledSets(sc) == DOMAIN sc.sets

\* A handler of the screencast subsystem leaves the record of its run: what
\* it was, the static and the installed sets it started with, and the on/off
\* state before each of the last two runs of the action.
ScreencastDone(sc, op) ==
    [sc EXCEPT !.op = op,
               !.pre = [disposable |-> screencast.disposable,
                        sets |-> DOMAIN screencast.sets,
                        stores |-> screencast.stores],
               !.runPre = IF op # "run" THEN @
                          ELSE IF Len(@) < 2 THEN Append(@, ScreencastOn(screencast))
                          ELSE <<@[2], ScreencastOn(screencast)>>]

ToggleScreencastModeRunKeepingStatic(sc) ==
    IF sc.disposable # NoDisposable
    THEN [sc EXCEPT !.sets = DisposeStore(@, sc.disposable)]
    ELSE [sc EXCEPT !.stores = @ + 1,
                    !.sets = InstallStore(@, sc.stores + 1),
                    !.disposable = sc.stores + 1]

\* ToggleScreencastModeAction.run
ToggleScreencastModeRun(sc) ==
    IF sc.disposable # NoDisposable
    THEN [sc EXCEPT !.sets = DisposeStore(@, sc.disposable),
                    !.disposable = NoDisposable]
    ELSE [sc EXCEPT !.stores = @ + 1,
                    !.sets = InstallStore(@, sc.stores + 1),
                    !.disposable = sc.stores + 1]

ToggleScreencastMode ==
    /\ ~ScreencastOn(screencast) => screencast.stores < MaxStores
    /\ screencast' = ScreencastDone(ToggleScreencastModeRun(screencast), "run")

\* the mousedown listener of each installed set
ScreencastMouseDown ==
    /\ InstalledSets(screencast) # {}
    /\ \A i \in InstalledSets(screencast) : screencast.sets[i].moveListeners < MaxMouseDowns
    /\ screencast' = ScreencastDone(
          [screencast EXCEPT !.sets = [i \in DOMAIN @ |->
              [@[i] EXCEPT !.display = "block", !.scale = "1",
                           !.moveListeners = @ + 1]]],
          "mouseDown")

\* the mousemove listeners a mouse-down added
ScreencastMouseMove ==
    /\ \E i \in InstalledSets(screencast) : screencast.sets[i].moveListeners > 0
    /\ screencast' = ScreencastDone(
          [screencast EXCEPT !.sets = [i \in DOMAIN @ |->
              IF @[i].moveListeners > 0 THEN [@[i] EXCEPT !.scale = ".8"] ELSE @[i]]],
          "mouseMove")

\* the once-listeners of mouseup a mouse-down added
ScreencastMouseUp ==
    /\ \E i \in InstalledSets(screencast) : screencast.sets[i].moveListeners > 0
    /\ screencast' = ScreencastDone(
          [screencast EXCEPT !.sets = [i \in DOMAIN @ |->
              IF @[i].moveListeners > 0
              THEN [@[i] EXCEPT !.display = "none", !.moveListeners = 0]
              ELSE @[i]]],
          "mouseUp")

\* the keydown listener of one set: its closure variables after it
KeyDownOfSet(s, e) ==
    IF e.process
    THEN IF ~e.codeIncludesKey THEN [s EXCEPT !.composing = FALSE] ELSE s
    ELSE IF e.hiddenCursorMove THEN s
    ELSE IF e.shown
    THEN [s EXCEPT !.length = (IF e.clears \/ @ > MaxKeysShown THEN 0 ELSE @) + 1]
    ELSE s

\* the keydown listener's use of clearKeyboardScheduler
KeyDownSchedule(scheduled, i, e) ==
    IF e.process
    THEN IF ~e.codeIncludesKey THEN scheduled \ {i} ELSE scheduled
    ELSE IF e.hiddenCursorMove THEN scheduled
    ELSE scheduled \cup {i}

\* the keydown listener; the fields of e that the path taken does not read
\* are held at FALSE, and a hidden cursor move resolves to a command
ScreencastKeyDown(e) ==
    /\ InstalledSets(screencast) # {}
    /\ e.codeIncludesKey => e.process
    /\ e.process => ~e.hiddenCursorMove /\ ~e.shown /\ ~e.clears
    /\ e.hiddenCursorMove => e.shown /\ ~e.clears
    /\ LET KeyDownSchedules[ids \in SUBSET InstalledSets(screencast)] ==
               IF ids = {} THEN screencast.scheduled
               ELSE LET i == CHOOSE j \in ids : TRUE
                    IN  KeyDownSchedule(KeyDownSchedules[ids \ {i}], i, e)
       IN  screencast' = ScreencastDone(
              [screencast EXCEPT
                  !.sets = [i \in DOMAIN @ |-> KeyDownOfSet(@[i], e)],
                  !.scheduled = KeyDownSchedules[InstalledSets(screencast)]],
              "keyDown")

\* the compositionupdate listener; hasData is whether e.data is non-empty
ScreencastCompositionUpdate(hasData) ==
    /\ InstalledSets(screencast) # {}
    /\ screencast' = ScreencastDone(
          [screencast EXCEPT
              !.sets = [i \in DOMAIN @ |->
                           IF hasData THEN [@[i] EXCEPT !.composing = TRUE] ELSE @[i]],
              !.scheduled = @ \cup InstalledSets(screencast)],
          "compositionUpdate")

\* the compositionend listener
ScreencastCompositionEnd ==
    /\ InstalledSets(screencast) # {}
    /\ screencast' = ScreencastDone(
          [screencast EXCEPT !.sets = [i \in DOMAIN @ |-> [@[i] EXCEPT !.composing = FALSE]]],
          "compositionEnd")

\* clearKeyboardScheduler's timer of store i fires; the scheduler is not in
\* the store, so its timer outlives the disposal and then finds no marker
ClearKeyboardSchedulerRuns(i) ==
    /\ i \in screencast.scheduled
    /\ screencast' = ScreencastDone(
          [screencast EXCEPT
              !.scheduled = @ \ {i},
              !.sets = [j \in DOMAIN @ |->
                           IF j = i THEN [@[j] EXCEPT !.length = 0, !.composing = FALSE]
                           ELSE @[j]]],
          "clearKeyboard")

Next ==
    \/ \E handle \in Handles, id \in ProviderIds, implementsProgress \in BOOLEAN :
          /\ RegisterInteractiveSessionProvider(handle, id, implementsProgress)
          /\ UNCHANGED <<sessionVars, hoverVars, screencastVars>>
    \/ \E handle \in Handles :
          UnregisterInteractiveSessionProvider(handle) /\ UNCHANGED <<sessionVars, hoverVars, screencastVars>>
    \/ \E unreg \in 1..MaxRegs, sessionId \in SessionIds :
          ProvideReply(unreg, sessionId) /\ UNCHANGED <<sessionVars, hoverVars, screencastVars>>
    \/ \E c \in 1..MaxCalls, outcome \in {"resolved", "rejected"}, err \in RemoteErrors :
          SettleInteractiveReply(c, outcome, err) /\ UNCHANGED <<sessionVars, hoverVars, screencastVars>>
    \/ \E handle \in Handles, sessionId \in SessionIds, progress \in Progresses :
          /\ AcceptInteractiveResponseProgress(handle, sessionId, progress)
          /\ UNCHANGED <<sessionVars, hoverVars, screencastVars>>
    \/ Dispose /\ UNCHANGED <<sessionVars, hoverVars, screencastVars>>

Spec == Init /\ [][Next]_vars

\* The bridge's registrations and the sessions its providers prepare.
SessionNext ==
    \/ \E handle \in Handles, id \in ProviderIds, implementsProgress \in BOOLEAN :
          /\ RegisterInteractiveSessionProvider(handle, id, implementsProgress)
          /\ UNCHANGED <<sessionVars, hoverVars, screencastVars>>
    \/ \E handle \in Handles :
          UnregisterInteractiveSessionProvider(handle) /\ UNCHANGED <<sessionVars, hoverVars, screencastVars>>
    \/ \E unreg \in 1..MaxRegs, remote \in RemoteSessions :
          PrepareSession(unreg, remote) /\ UNCHANGED <<bridgeVars, hoverVars, screencastVars>>
    \/ \E o \in 1..MaxSessionObjects :
          DisposeSession(o) /\ UNCHANGED <<bridgeVars, hoverVars, screencastVars>>

SessionSpec == Init /\ [][SessionNext]_vars

\* The hover controller's editor events, its action and its surroundings.
HoverNext ==
    \/ \E target \in MouseTargets : OnEditorMouseDown(target) /\ UNCHANGED <<bridgeVars, sessionVars, screencastVars>>
    \/ OnEditorMouseUp /\ UNCHANGED <<bridgeVars, sessionVars, screencastVars>>
    \/ \E relatedInside \in BOOLEAN :
          OnEditorMouseLeave(relatedInside) /\ UNCHANGED <<bridgeVars, sessionVars, screencastVars>>
    \/ \E target \in MouseTargets, collapsed \in Collapsed, accepts \in BOOLEAN :
          /\ OnEditorMouseMove(target, collapsed, accepts)
          /\ UNCHANGED <<bridgeVars, sessionVars, screencastVars>>
    \/ \E key \in KeyboardEvents : OnKeyDown(key) /\ UNCHANGED <<bridgeVars, sessionVars, screencastVars>>
    \/ \E scrollTopChanged \in BOOLEAN, scrollLeftChanged \in BOOLEAN :
          /\ OnEditorScrollChanged(scrollTopChanged, scrollLeftChanged)
          /\ UNCHANGED <<bridgeVars, sessionVars, screencastVars>>
    \/ \E model \in BOOLEAN : OnDidChangeModel(model) /\ UNCHANGED <<bridgeVars, sessionVars, screencastVars>>
    \/ \E opts \in HoverOptions, hasChanged \in BOOLEAN :
          /\ OnDidChangeConfiguration(opts, hasChanged)
          /\ UNCHANGED <<bridgeVars, sessionVars, screencastVars>>
    \/ \E position \in CursorPositions \cup {NoCursor},
          accessibilityEnabled \in BOOLEAN, argsFocus \in BOOLEAN :
          /\ ShowOrFocusHover(position, accessibilityEnabled, argsFocus)
          /\ UNCHANGED <<bridgeVars, sessionVars, screencastVars>>
    \/ ColorPickerChanged /\ UNCHANGED <<bridgeVars, sessionVars, screencastVars>>
    \/ DropDownChanged /\ UNCHANGED <<bridgeVars, sessionVars, screencastVars>>

HoverSpec == Init /\ [][HoverNext]_vars

\* The hover controller driven by the editor's events alone: no command
\* calls showContentHover.
HoverEventsNext ==
    \/ \E target \in MouseTargets : OnEditorMouseDown(target) /\ UNCHANGED <<bridgeVars, sessionVars, screencastVars>>
    \/ OnEditorMouseUp /\ UNCHANGED <<bridgeVars, sessionVars, screencastVars>>
    \/ \E relatedInside \in BOOLEAN :
          OnEditorMouseLeave(relatedInside) /\ UNCHANGED <<bridgeVars, sessionVars, screencastVars>>
    \/ \E target \in MouseTargets, collapsed \in Collapsed, accepts \in BOOLEAN :
          /\ OnEditorMouseMove(target, collapsed, accepts)
          /\ UNCHANGED <<bridgeVars, sessionVars, screencastVars>>
    \/ \E key \in KeyboardEvents : OnKeyDown(key) /\ UNCHANGED <<bridgeVars, sessionVars, screencastVars>>
    \/ \E scrollTopChanged \in BOOLEAN, scrollLeftChanged \in BOOLEAN :
          /\ OnEditorScrollChanged(scrollTopChanged, scrollLeftChanged)
          /\ UNCHANGED <<bridgeVars, sessionVars, screencastVars>>
    \/ \E model \in BOOLEAN : OnDidChangeModel(model) /\ UNCHANGED <<bridgeVars, sessionVars, screencastVars>>
    \/ \E opts \in HoverOptions, hasChanged \in BOOLEAN :
          /\ OnDidChangeConfiguration(opts, hasChanged)
          /\ UNCHANGED <<bridgeVars, sessionVars, screencastVars>>
    \/ ColorPickerChanged /\ UNCHANGED <<bridgeVars, sessionVars, screencastVars>>
    \/ DropDownChanged /\ UNCHANGED <<bridgeVars, sessionVars, screencastVars>>

HoverEventsSpec == Init /\ [][HoverEventsNext]_vars

\* The screencast toggle and the events its listeners receive.
ScreencastNext ==
    \/ ToggleScreencastMode /\ UNCHANGED <<bridgeVars, sessionVars, hoverVars>>
    \/ ScreencastMouseDown /\ UNCHANGED <<bridgeVars, sessionVars, hoverVars>>
    \/ ScreencastMouseMove /\ UNCHANGED <<bridgeVars, sessionVars, hoverVars>>
    \/ ScreencastMouseUp /\ UNCHANGED <<bridgeVars, sessionVars, hoverVars>>
    \/ \E e \in ScreencastKeyDowns :
          ScreencastKeyDown(e) /\ UNCHANGED <<bridgeVars, sessionVars, hoverVars>>
    \/ \E hasData \in BOOLEAN :
          ScreencastCompositionUpdate(hasData) /\ UNCHANGED <<bridgeVars, sessionVars, hoverVars>>
    \/ ScreencastCompositionEnd /\ UNCHANGED <<bridgeVars, sessionVars, hoverVars>>
    \/ \E i \in 1..MaxStores :
          ClearKeyboardSchedulerRuns(i) /\ UNCHANGED <<bridgeVars, sessionVars, hoverVars>>

ScreencastSpec == Init /\ [][ScreencastNext]_vars

\* The bridge's requests and progress for handles and session ids whose
\* digits run into each other.
KeyNext ==
    \/ \E handle \in KeyHandles, id \in registeredProviders :
          /\ RegisterInteractiveSessionProvider(handle, id, TRUE)
          /\ UNCHANGED <<sessionVars, hoverVars, screencastVars>>
    \/ \E unreg \in 1..MaxRegs, sessionId \in KeySessions :
          ProvideReply(unreg, sessionId) /\ UNCHANGED <<sessionVars, hoverVars, screencastVars>>
    \/ \E c \in 1..MaxCalls, outcome \in {"resolved", "rejected"} :
          /\ SettleInteractiveReply(c, outcome, "boom")
          /\ UNCHANGED <<sessionVars, hoverVars, screencastVars>>
    \/ \E handle \in KeyHandles, sessionId \in KeySessions :
          /\ AcceptInteractiveResponseProgress(handle, sessionId, "hi")
          /\ UNCHANGED <<sessionVars, hoverVars, screencastVars>>

KeySpec == Init /\ [][KeyNext]_vars

\* ------------------------------------------------------------------ properties

\* The provideReply calls for (handle, sessionId) whose remote call has been
\* issued and has not settled.
InFlight(handle, sessionId) ==
    {c \in DOMAIN calls : /\ calls[c].remote = "pending"
                          /\ calls[c].handle = handle
                          /\ calls[c].session = sessionId}

LastKey == CompositeKey(lastOp.handle, lastOp.session)

\* The state other than the record of the last handler run.
bridgeState == <<registrations, activeRequestProgressCallbacks, providers, disposed, calls>>

\* C1: in the state right after a provideReply for (h, s) has settled,
\* resolved or rejected, the callback map has no entry under the key of (h, s).
C1_SettledReplyLeavesNoEntry ==
    lastOp.op = "settle" => LastKey \notin DOMAIN activeRequestProgressCallbacks

\* A provideReply has just rejected.
C1_Witness ==
    /\ lastOp.op = "settle"
    /\ lastOp.threw
    /\ calls[lastOp.call].state = "rejected"

\* C2: registerProvider with an undeclared id throws before the session
\* service and the remote proxy are called, and changes no map.
C2_UndeclaredIdThrowsFirst ==
    [][ (lastOp'.op = "register" /\ lastOp'.id \notin registeredProviders)
        => /\ lastOp'.threw
           /\ lastOp'.serviceCalls = 0
           /\ lastOp'.remoteCalls = 0
           /\ UNCHANGED bridgeState ]_vars

\* A registration with an undeclared id has just thrown, in a state that
\* holds a registration.
C2_Witness ==
    /\ lastOp.op = "register"
    /\ lastOp.id = "p2"
    /\ lastOp.threw
    /\ registrations # <<>>

\* C3 as stated: when exactly one provideReply for (h, s) is in flight,
\* acceptResponseProgress(h, s, p) invokes that call's callback exactly
\* once, with p, and no other callback.
C3_ProgressReachesTheOnlyCallInFlight ==
    lastOp.op = "accept" =>
        \A c \in DOMAIN calls :
            InFlight(lastOp.handle, lastOp.session) = {c}
            => lastOp.invoked = <<[call |-> c, progress |-> lastOp.progress]>>

\* C3 amended: the same, provided no other provideReply for (h, s) has
\* settled since the call in flight was issued.
C3_ProgressReachesTheUndisturbedCall ==
    lastOp.op = "accept" =>
        \A c \in DOMAIN calls :
            (InFlight(lastOp.handle, lastOp.session) = {c} /\ ~calls[c].settledOver)
            => lastOp.invoked = <<[call |-> c, progress |-> lastOp.progress]>>

\* Progress has just been delivered to the only call in flight for its pair.
C3_Witness ==
    /\ lastOp.op = "accept"
    /\ Len(lastOp.invoked) = 1
    /\ InFlight(lastOp.handle, lastOp.session) = {lastOp.invoked[1].call}
    /\ lastOp.invoked[1].progress = "hi"

\* C4: acceptResponseProgress for a key without an entry does not throw,
\* invokes nothing and changes no map; callbacks are invoked only by an
\* acceptResponseProgress step, for the entry stored under its key at that
\* moment and with its own payload, so nothing is kept for a later
\* provideReply.
C4_ProgressWithoutEntryIsDropped ==
    [][ /\ (lastOp'.op = "accept"
            /\ CompositeKey(lastOp'.handle, lastOp'.session)
                   \notin DOMAIN activeRequestProgressCallbacks)
           => /\ ~lastOp'.threw
              /\ lastOp'.invoked = <<>>
              /\ UNCHANGED bridgeState
        /\ lastOp'.invoked # <<>>
           => /\ lastOp'.op = "accept"
              /\ CompositeKey(lastOp'.handle, lastOp'.session)
                     \in DOMAIN activeRequestProgressCallbacks
              /\ \A i \in 1..Len(lastOp'.invoked) :
                    /\ lastOp'.invoked[i].call =
                           activeRequestProgressCallbacks[
                               CompositeKey(lastOp'.handle, lastOp'.session)]
                    /\ lastOp'.invoked[i].progress = lastOp'.progress ]_vars

\* Progress has just been dropped for a pair without an entry, while another
\* pair has one.
C4_Witness ==
    /\ lastOp.op = "accept"
    /\ LastKey \notin DOMAIN activeRequestProgressCallbacks
    /\ lastOp.invoked = <<>>
    /\ activeRequestProgressCallbacks # <<>>

\* C5 as stated: once handle h is unregistered, acceptResponseProgress(h, s, p)
\* invokes no callback.
C5_NoProgressAfterUnregister ==
    (lastOp.op = "accept" /\ lastOp.handle \notin DOMAIN registrations)
    => lastOp.invoked = <<>>

\* C5 amended: once handle h is unregistered, acceptResponseProgress(h, s, p)
\* invokes at most one callback, that of a provideReply for (h, s) that is
\* still in flight; without such a call it invokes nothing.
C5_AfterUnregisterOnlyRepliesInFlight ==
    (lastOp.op = "accept" /\ lastOp.handle \notin DOMAIN registrations)
    => /\ Len(lastOp.invoked) <= 1
       /\ \A i \in 1..Len(lastOp.invoked) :
             /\ lastOp.invoked[i].call \in InFlight(lastOp.handle, lastOp.session)
             /\ lastOp.invoked[i].progress = lastOp.progress

\* Progress for an unregistered handle has just been dropped, after its
\* provider was registered, called and unregistered.
C5_Witness ==
    /\ lastOp.op = "accept"
    /\ lastOp.handle \notin DOMAIN registrations
    /\ lastOp.invoked = <<>>
    /\ \E c \in DOMAIN calls : calls[c].handle = lastOp.handle /\ calls[c].session = lastOp.session

\* Another provideReply for the same pair was issued after c.
Superseded(c) ==
    \E d \in DOMAIN calls : d > c /\ KeyOf(d) = KeyOf(c)

\* C6 as stated: while the remote call of a provideReply is in flight, the
\* map holds that call's callback under its key.
C6_CallbackHeldWhileInFlight ==
    \A c \in DOMAIN calls :
        calls[c].remote = "pending"
        => /\ KeyOf(c) \in DOMAIN activeRequestProgressCallbacks
           /\ activeRequestProgressCallbacks[KeyOf(c)] = c

\* C6 amended: the same, until another provideReply for the same pair begins
\* or settles.
C6_CallbackHeldUntilDisturbed ==
    \A c \in DOMAIN calls :
        (calls[c].remote = "pending" /\ ~Superseded(c) /\ ~calls[c].settledOver)
        => /\ KeyOf(c) \in DOMAIN activeRequestProgressCallbacks
           /\ activeRequestProgressCallbacks[KeyOf(c)] = c

\* Two replies for different pairs are in flight, each holding its entry.
C6_Witness ==
    \E c, d \in DOMAIN calls :
        /\ c # d
        /\ KeyOf(c) # KeyOf(d)
        /\ calls[c].remote = "pending"
        /\ calls[d].remote = "pending"

\* C7: every callback in the map belongs to a provideReply whose remote call
\* has not settled (and is stored under that call's key).
C7_NoStaleCallback ==
    \A k \in DOMAIN activeRequestProgressCallbacks :
        /\ activeRequestProgressCallbacks[k] \in DOMAIN calls
        /\ calls[activeRequestProgressCallbacks[k]].remote = "pending"
        /\ KeyOf(activeRequestProgressCallbacks[k]) = k

\* A reply for a pair has settled and a later reply for the same pair holds
\* the entry.
C7_Witness ==
    \E k \in DOMAIN activeRequestProgressCallbacks :
        \E c \in DOMAIN calls :
            /\ KeyOf(c) = k
            /\ calls[c].remote # "pending"
            /\ activeRequestProgressCallbacks[k] # c

\* C8: a provideReply that begins stores its own callback under the key,
\* replacing one stored there, and changes no other call (an earlier call for
\* the pair stays in flight); progress is from then on delivered only to the
\* callback of the call issued last for the pair.
C8_SecondReplyOverwrites ==
    /\ [][ lastOp'.op = "provideReply"
           => /\ activeRequestProgressCallbacks'[
                     CompositeKey(lastOp'.handle, lastOp'.session)] = lastOp'.call
              /\ \A a \in DOMAIN calls : calls'[a] = calls[a] ]_vars
    /\ [](lastOp.op = "accept"
           => /\ Len(lastOp.invoked) <= 1
              /\ \A i \in 1..Len(lastOp.invoked) : ~Superseded(lastOp.invoked[i].call))

\* Progress has just been delivered to the second of two overlapping replies
\* for one pair, the first still in flight.
C8_Witness ==
    /\ lastOp.op = "accept"
    /\ Len(lastOp.invoked) = 1
    /\ \E a \in InFlight(lastOp.handle, lastOp.session) : a < lastOp.invoked[1].call

\* C9: when the remote call rejects, the entry is gone in the state in which
\* provideReply has rejected, it rejects with the remote's error, and every
\* provideReply has issued exactly one remote call.
C9_RejectionCleansUpAndPropagates ==
    /\ (lastOp.op = "settle" /\ lastOp.remoteError # "")
       => /\ lastOp.threw
          /\ lastOp.error = lastOp.remoteError
          /\ calls[lastOp.call].state = "rejected"
          /\ LastKey \notin DOMAIN activeRequestProgressCallbacks
    /\ \A c \in DOMAIN calls :
          /\ calls[c].remoteCalls = 1
          /\ calls[c].state = "rejected"
             => ~(\E k \in DOMAIN activeRequestProgressCallbacks :
                     activeRequestProgressCallbacks[k] = c)

\* The remote has just rejected with E2.
C9_Witness ==
    /\ lastOp.op = "settle"
    /\ lastOp.remoteError = "E2"
    /\ lastOp.error = "E2"

\* C10: unregisterProvider for a handle without a registration does not
\* throw and changes nothing; after unregisterProvider(h) the handle has no
\* registration (so a second call in a row is such a call); no registration
\* is disposed more than once.
C10_UnregisterIdempotent ==
    /\ [][ (lastOp'.op = "unregister" /\ lastOp'.handle \notin DOMAIN registrations)
           => /\ ~lastOp'.threw
              /\ lastOp'.disposals = 0
              /\ UNCHANGED bridgeState ]_vars
    /\ [](lastOp.op = "unregister" => lastOp.handle \notin DOMAIN registrations)
    /\ [](\A r \in DOMAIN disposed : disposed[r] <= 1)

\* The only registration ever made was for the handle of a call, it has been
\* disposed, and the last step was an unregisterProvider of that handle that
\* disposed nothing: the second of two in a row.
C10_Witness ==
    /\ lastOp.op = "unregister"
    /\ lastOp.disposals = 0
    /\ DOMAIN disposed = {1}
    /\ disposed[1] = 1
    /\ \E c \in DOMAIN calls : calls[c].handle = lastOp.handle

\* C11: after a successful registerProvider(h, ...) the map holds under h the
\* unregistration handle the service returned, installed and not disposed;
\* after unregisterProvider(h) there is no entry under h and after dispose()
\* there is no entry at all; a handle the service returned is disposed
\* exactly when the map no longer holds it.
C11_RegistrationLifecycle ==
    /\ (lastOp.op = "register" /\ ~lastOp.threw)
       => /\ lastOp.handle \in DOMAIN registrations
          /\ registrations[lastOp.handle] = lastOp.unreg
          /\ lastOp.unreg \in DOMAIN providers
          /\ disposed[lastOp.unreg] = 0
    /\ lastOp.op = "unregister" => lastOp.handle \notin DOMAIN registrations
    /\ lastOp.op = "dispose" => registrations = <<>>
    /\ \A r \in DOMAIN disposed :
          /\ disposed[r] = 0 <=> (\E h \in DOMAIN registrations : registrations[h] = r)
          /\ disposed[r] = 0 <=> r \in DOMAIN providers
          /\ disposed[r] <= 1

\* dispose() has just disposed the registrations of two handles.
C11_Witness ==
    /\ lastOp.op = "dispose"
    /\ lastOp.disposals = 2
    /\ \A r \in DOMAIN disposed : disposed[r] = 1

\* C12: a prepareSession whose remote returns nothing yields no session
\* object; one whose remote returns a session yields an object with the
\* remote's id, the remote's user names or 'Username' / 'Response' where the
\* remote left them undefined; a dispose() of a returned object sends one
\* $releaseSession, for its id; the remote gets a release only for the id of
\* a returned object.
C12_PrepareSessionResult ==
    /\ sessionOp.op = "prepareSession"
       => IF ~sessionOp.remote.defined
          THEN /\ sessionOp.result = NoSession
               /\ sessionOp.obj = 0
               /\ sessionOp.releases = <<>>
          ELSE /\ sessionOp.result.defined
               /\ sessionOp.result.id = sessionOp.remote.id
               /\ sessionOp.result.requesterUsername =
                      (IF sessionOp.remote.requesterUsername = Undefined
                       THEN "Username" ELSE sessionOp.remote.requesterUsername)
               /\ sessionOp.result.responderUsername =
                      (IF sessionOp.remote.responderUsername = Undefined
                       THEN "Response" ELSE sessionOp.remote.responderUsername)
               /\ sessionOp.obj = Len(sessionObjects)
               /\ sessionObjects[sessionOp.obj] = sessionOp.remote.id
               /\ sessionOp.releases = <<>>
    /\ sessionOp.op = "disposeSession"
       => sessionOp.releases = <<sessionObjects[sessionOp.obj]>>
    /\ \A s \in releasesSent : \E o \in 1..Len(sessionObjects) : sessionObjects[o] = s

\* A session whose remote left the requester's name undefined has just been
\* returned with the default, after another session was released.
C12_Witness ==
    /\ sessionOp.op = "prepareSession"
    /\ sessionOp.remote.defined
    /\ sessionOp.remote.requesterUsername = Undefined
    /\ sessionOp.result.requesterUsername = "Username"
    /\ sessionOp.result.responderUsername = "bot"
    /\ releasesSent # {}

\* ------------------------------------------------------------------ properties: hover controller

\* The last handler hid a widget that was shown when it started.
HidContent == hoverOp.pre.content.visible /\ ~contentWidget.visible
HidGlyph == hoverOp.pre.glyph.visible /\ ~glyphWidget.visible

BothHidden == ~contentWidget.visible /\ ~glyphWidget.visible

\* The last handler was a mouse-down outside both hover widgets.
MouseDownOutside ==
    /\ hoverOp.op = "mouseDown"
    /\ ~IsContentHover(hoverOp.target)
    /\ ~IsMarginHover(hoverOp.target)

\* The last handler was a mouse-move over a target at which the content widget
\* declines to show and which is not a gutter glyph margin position.
MouseMoveNonHoverable ==
    /\ hoverOp.op = "mouseMove"
    /\ ~hoverOp.flag
    /\ ~(hoverOp.target.type = "GUTTER_GLYPH_MARGIN" /\ hoverOp.target.position # NoPosition)

\* The hide guard of _hideWidgets in the state the last handler started in.
GuardedByColorPicker ==
    hoverOp.pre.isMouseDown /\ hoverOp.pre.hoverClicked /\ hoverOp.pre.content.colorPickerVisible
GuardedByDropDown == hoverOp.pre.dropDownVisible

\* C13: while hover is sticky and the content widget is visible, a mouse-move
\* whose target is the content hover widget hides neither the content widget
\* nor the glyph widget, whatever isMouseDown and hoverClicked are.
C13_StickyMoveOverHoverHidesNothing ==
    (/\ hoverOp.op = "mouseMove"
     /\ IsContentHover(hoverOp.target)
     /\ hoverOp.pre.isHoverSticky
     /\ hoverOp.pre.content.visible)
    => /\ contentWidget.visible
       /\ glyphWidget = hoverOp.pre.glyph
       /\ hoverOp.calls = {}

C13_Witness ==
    /\ hoverOp.op = "mouseMove"
    /\ IsContentHover(hoverOp.target)
    /\ hoverOp.pre.isHoverSticky
    /\ hoverOp.pre.content.visible
    /\ hoverOp.pre.glyph.visible
    /\ ~hoverOp.pre.isMouseDown
    /\ hoverOp.collapsed = "true"
    /\ contentWidget.visible /\ glyphWidget.visible

\* C14 as stated: a mouse-down outside any hover widget followed immediately
\* by a mouse-move over a non-hoverable target ends with both widgets hidden.
C14_DownOutsideThenMoveHidesBoth ==
    (MouseMoveNonHoverable /\ hoverOp.prev \in {"mouseDownOutside", "guardedMouseDownOutside"})
    => BothHidden

\* C14 amended: the same, for a mouse-down made while the inline-suggestion
\* dropdown is not visible and that is not on an overlay widget while
\* hoverClicked is true and the color picker is open.
C14_UnguardedDownOutsideThenMoveHidesBoth ==
    (MouseMoveNonHoverable /\ hoverOp.prev = "mouseDownOutside") => BothHidden

C14_Witness ==
    /\ MouseMoveNonHoverable
    /\ hoverOp.prev = "mouseDownOutside"
    /\ hoverOp.exit = "end@198"
    /\ hoverOp.pre.isMouseDown
    /\ BothHidden

\* C15 as stated: a mouse-down whose target is neither hover widget hides both
\* widgets and leaves hoverClicked false, for every target and prior state.
C15_DownOutsideHidesBoth ==
    MouseDownOutside => BothHidden /\ ~hoverClicked

\* C15 amended: the same, for every target and prior state in which the
\* inline-suggestion dropdown is not visible and the target is not an overlay
\* widget hit while hoverClicked is true and the color picker is open.
C15_UnguardedDownOutsideHidesBoth ==
    (/\ MouseDownOutside
     /\ ~hoverOp.pre.dropDownVisible
     /\ ~(/\ hoverOp.target.type = "OVERLAY_WIDGET"
          /\ hoverOp.pre.hoverClicked
          /\ hoverOp.pre.content.colorPickerVisible))
    => BothHidden /\ ~hoverClicked /\ isMouseDown

C15_Witness ==
    /\ MouseDownOutside
    /\ hoverOp.target.type = "OVERLAY_WIDGET"
    /\ ~hoverOp.pre.dropDownVisible
    /\ hoverOp.pre.hoverClicked
    /\ ~hoverOp.pre.content.colorPickerVisible
    /\ hoverOp.pre.content.visible
    /\ BothHidden /\ ~hoverClicked

\* C16: a mouse-down on the content hover widget sets hoverClicked and
\* isMouseDown to true and hides nothing: both widgets are as they were.
C16_DownOnHoverSetsClickedAndKeepsWidgets ==
    (hoverOp.op = "mouseDown" /\ IsContentHover(hoverOp.target))
    => /\ hoverClicked
       /\ isMouseDown
       /\ contentWidget = hoverOp.pre.content
       /\ glyphWidget = hoverOp.pre.glyph
       /\ hoverOp.calls = {}

C16_Witness ==
    /\ hoverOp.op = "mouseDown"
    /\ IsContentHover(hoverOp.target)
    /\ ~hoverOp.pre.hoverClicked
    /\ ~hoverOp.pre.isMouseDown
    /\ ~hoverOp.pre.dropDownVisible
    /\ hoverClicked /\ isMouseDown
    /\ contentWidget.visible /\ glyphWidget.visible

\* The last handler is one of the six event handlers that can hide.
HidingHandlers == {"mouseDown", "mouseMove", "mouseLeave", "keyDown", "scrollChange",
                   "modelChange"}

\* The last handler hid no widget and did not clear hoverClicked.
NothingHiddenOrCleared ==
    /\ ~HidContent
    /\ ~HidGlyph
    /\ hoverOp.pre.hoverClicked => hoverClicked

\* C17 as stated: while the color picker is open and hoverClicked is true, or
\* while the inline-suggestion dropdown is visible, none of the six handlers
\* hides the content widget or the glyph widget or clears hoverClicked.
C17_GuardStopsEveryHandler ==
    (/\ hoverOp.op \in HidingHandlers
     /\ \/ hoverOp.pre.hoverClicked /\ hoverOp.pre.content.colorPickerVisible
        \/ hoverOp.pre.dropDownVisible)
    => NothingHiddenOrCleared

\* C17 amended: while the mouse is down, hoverClicked is true and the color
\* picker is open, or while the inline-suggestion dropdown is visible, the
\* key-down, mouse-leave, scroll and model-change handlers hide no widget and
\* do not clear hoverClicked; in the first case a mouse-move does neither as
\* well; in the second case a mouse-down hides no widget; and a mouse-down on
\* the content hover or on an overlay widget while hoverClicked is true and
\* the color picker is open hides no widget and keeps hoverClicked.
C17_GuardStopsHideWidgets ==
    /\ (/\ hoverOp.op \in {"keyDown", "mouseLeave", "scrollChange", "modelChange"}
        /\ GuardedByColorPicker \/ GuardedByDropDown)
       => NothingHiddenOrCleared /\ hoverOp.calls = {}
    /\ (hoverOp.op = "mouseMove" /\ GuardedByColorPicker)
       => NothingHiddenOrCleared /\ hoverOp.calls = {}
    /\ (hoverOp.op = "mouseDown" /\ GuardedByDropDown)
       => ~HidContent /\ ~HidGlyph
    /\ (/\ hoverOp.op = "mouseDown"
        /\ hoverOp.pre.hoverClicked /\ hoverOp.pre.content.colorPickerVisible
        /\ IsContentHover(hoverOp.target) \/ hoverOp.target.type = "OVERLAY_WIDGET")
       => NothingHiddenOrCleared

C17_Witness ==
    /\ hoverOp.op = "keyDown"
    /\ hoverOp.key.keyCode = "KeyK"
    /\ ~hoverOp.key.resolved.defined
    /\ hoverOp.pre.hasModel
    /\ GuardedByColorPicker
    /\ ~GuardedByDropDown
    /\ hoverOp.pre.glyph.visible
    /\ contentWidget.visible /\ glyphWidget.visible /\ hoverClicked

\* The key of the last key-down is none of Ctrl, Alt, Meta, Shift.
NonModifierKeyDown ==
    hoverOp.op = "keyDown" /\ hoverOp.key.keyCode \notin ModifierKeyCodes

C19_MouseLeaveHidesUnlessInside ==
    /\ (/\ hoverOp.op = "mouseLeave"
        /\ ~hoverOp.flag
        /\ ~GuardedByColorPicker
        /\ ~GuardedByDropDown)
       => BothHidden /\ ~hoverClicked
    /\ (hoverOp.op = "mouseLeave" /\ hoverOp.flag)
       => /\ contentWidget = hoverOp.pre.content
          /\ glyphWidget = hoverOp.pre.glyph
          /\ isMouseDown = hoverOp.pre.isMouseDown
          /\ hoverClicked = hoverOp.pre.hoverClicked
          /\ isHoverEnabled = hoverOp.pre.isHoverEnabled
          /\ isHoverSticky = hoverOp.pre.isHoverSticky
          /\ hoverOp.calls = {}

C19_Witness ==
    /\ hoverOp.op = "mouseLeave"
    /\ hoverOp.flag
    /\ ~GuardedByColorPicker
    /\ ~GuardedByDropDown
    /\ hoverOp.pre.glyph.visible
    /\ contentWidget.visible /\ glyphWidget.visible

\* C20: with hover enabled, a mouse-move that passes the early returns creates
\* the content widget if there is none and asks it whether to show at the
\* position; if it accepts, the glyph widget is hidden and nothing else is
\* done: the content widget is not hidden.
C20_MoveAsksContentWidget ==
    (/\ hoverOp.op = "mouseMove"
     /\ hoverOp.pre.isHoverEnabled
     /\ hoverOp.exit \notin EarlyReturns)
    => /\ contentWidget.exists
       /\ "content.create" \in hoverOp.calls <=> ~hoverOp.pre.content.exists
       /\ "content.maybeShowAt" \in hoverOp.calls
       /\ hoverOp.flag
          => /\ ~glyphWidget.visible
             /\ contentWidget.visible
             /\ hoverOp.calls \subseteq {"content.create", "content.maybeShowAt", "glyph.hide"}
             /\ "glyph.hide" \in hoverOp.calls <=> hoverOp.pre.glyph.exists
             /\ hoverClicked = hoverOp.pre.hoverClicked
             /\ isMouseDown = hoverOp.pre.isMouseDown

C20_Witness ==
    /\ hoverOp.op = "mouseMove"
    /\ hoverOp.pre.isHoverEnabled
    /\ hoverOp.exit = "return@186"
    /\ hoverOp.flag
    /\ hoverOp.pre.glyph.visible
    /\ ~hoverOp.pre.content.visible
    /\ contentWidget.visible /\ ~glyphWidget.visible

\* The last handler was a mouse-move that asked the content widget whether to
\* show, was declined, and whose target is a gutter glyph margin position.
MouseMoveDeclinedOverGutter ==
    /\ hoverOp.op = "mouseMove"
    /\ "content.maybeShowAt" \in hoverOp.calls
    /\ ~hoverOp.flag
    /\ hoverOp.target.type = "GUTTER_GLYPH_MARGIN"
    /\ hoverOp.target.position # NoPosition

\* C21: with hover enabled, a mouse-move over a gutter glyph margin target
\* that has a position, at which the content widget declines to show, hides
\* the content widget, creates the glyph widget if there is none, and starts
\* showing the glyph widget at the target's line number.
C21_DeclinedMoveOverGutterShowsGlyph ==
    MouseMoveDeclinedOverGutter
    => /\ hoverOp.pre.isHoverEnabled
       /\ ~contentWidget.visible
       /\ "content.hide" \in hoverOp.calls
       /\ glyphWidget.exists
       /\ "glyph.create" \in hoverOp.calls <=> ~hoverOp.pre.glyph.exists
       /\ "glyph.startShowingAt" \in hoverOp.calls
       /\ glyphWidget.visible
       /\ glyphWidget.lineNumber = hoverOp.target.position
       /\ hoverOp.exit = "return@195"

C21_Witness ==
    /\ MouseMoveDeclinedOverGutter
    /\ hoverOp.pre.content.visible
    /\ hoverOp.pre.glyph.visible
    /\ hoverOp.pre.glyph.lineNumber = 3
    /\ ~contentWidget.visible
    /\ glyphWidget.lineNumber = 8

\* C22: no widget exists before the first show request; the controller
\* creates at most one content widget and at most one glyph widget, and only
\* in a show request (mouse-move, showContentHover); every later show request
\* reuses the instance, and no handler, hiding included, discards it.
C22_WidgetsCreatedOnceAndKept ==
    /\ created.content <= 1
    /\ created.glyph <= 1
    /\ contentWidget.exists <=> created.content = 1
    /\ glyphWidget.exists <=> created.glyph = 1
    /\ hoverOp.op = "init" => ~contentWidget.exists /\ ~glyphWidget.exists
    /\ (contentWidget.exists /\ ~hoverOp.pre.content.exists)
       => /\ "content.create" \in hoverOp.calls
          /\ hoverOp.op \in {"mouseMove", "showOrFocusHover"}
          /\ \/ "content.maybeShowAt" \in hoverOp.calls
             \/ "content.startShowingAtRange" \in hoverOp.calls
    /\ (glyphWidget.exists /\ ~hoverOp.pre.glyph.exists)
       => /\ "glyph.create" \in hoverOp.calls
          /\ hoverOp.op = "mouseMove"
          /\ "glyph.startShowingAt" \in hoverOp.calls
    /\ hoverOp.pre.content.exists
       => contentWidget.exists /\ "content.create" \notin hoverOp.calls
    /\ hoverOp.pre.glyph.exists
       => glyphWidget.exists /\ "glyph.create" \notin hoverOp.calls

C22_Witness ==
    /\ hoverOp.op = "showOrFocusHover"
    /\ hoverOp.pre.content.exists
    /\ ~hoverOp.pre.content.visible
    /\ "content.startShowingAtRange" \in hoverOp.calls
    /\ "content.hide" \notin hoverOp.calls
    /\ contentWidget.visible
    /\ created = [content |-> 1, glyph |-> 1]

\* C23: after any sequence of hover configuration changes, mouse-move,
\* key-down, mouse-leave, model-change and scroll-change have exactly one
\* subscribed handler each, mouse-down and mouse-up have one when hover is
\* enabled and none when it is disabled (so none of an earlier setting is
\* left), and isHoverEnabled and isHoverSticky are the option's values.
C23_SubscriptionsFollowTheOption ==
    /\ \A e \in {"mouseMove", "keyDown", "mouseLeave", "didChangeModel", "didScrollChange"} :
          toUnhook[e] = 1
    /\ \A e \in {"mouseDown", "mouseUp"} :
          toUnhook[e] = IF hoverOpts.enabled THEN 1 ELSE 0
    /\ isHoverEnabled = hoverOpts.enabled
    /\ isHoverSticky = hoverOpts.sticky

C23_Witness ==
    /\ hoverOp.op = "configurationChange"
    /\ hoverOp.flag
    /\ ~hoverOp.pre.isHoverEnabled
    /\ hoverOp.pre.isHoverSticky
    /\ hoverOpts = [enabled |-> TRUE, sticky |-> FALSE]
    /\ toUnhook["mouseDown"] = 1

\* The last handler was a run of the Show or Focus Hover action.
ShowOrFocusHoverRan == hoverOp.op = "showOrFocusHover"

\* C24: a run of the Show or Focus Hover action on an editor with a model
\* starts showing the hover at the cursor position, in immediate mode and
\* with the keyboard as source, when the content hover is not visible; it
\* focuses the hover and starts no show when the hover is visible; on an
\* editor without a model it does nothing.
C24_ShowOrFocusHoverRun ==
    /\ (ShowOrFocusHoverRan /\ hoverOp.pre.hasModel /\ ~hoverOp.pre.content.visible)
       => /\ {"content.startShowingAtRange",
              "range=" \o ToString(<<hoverOp.cursor.lineNumber, hoverOp.cursor.column,
                                     hoverOp.cursor.lineNumber, hoverOp.cursor.column>>),
              "mode=Immediate", "source=Keyboard"} \subseteq hoverOp.calls
          /\ "content.focus" \notin hoverOp.calls
          /\ contentWidget.visible
          /\ contentWidget.visibleFromKeyboard
    /\ (ShowOrFocusHoverRan /\ hoverOp.pre.hasModel /\ hoverOp.pre.content.visible)
       => /\ hoverOp.calls = {"content.focus"}
          /\ contentWidget = hoverOp.pre.content
    /\ (ShowOrFocusHoverRan /\ ~hoverOp.pre.hasModel)
       => /\ hoverOp.calls = {}
          /\ contentWidget = hoverOp.pre.content
    /\ ShowOrFocusHoverRan
       => /\ glyphWidget = hoverOp.pre.glyph
          /\ hoverClicked = hoverOp.pre.hoverClicked
          /\ isMouseDown = hoverOp.pre.isMouseDown

C24_Witness ==
    /\ ShowOrFocusHoverRan
    /\ hoverOp.pre.hasModel
    /\ hoverOp.pre.content.visible
    /\ ~hoverOp.pre.content.visibleFromKeyboard
    /\ hoverOp.calls = {"content.focus"}
    /\ hoverOp.cursor.lineNumber = 8

\* C25: a key-down that begins a multi-chord keybinding, or that resolves to
\* the command ShowOrFocusHoverAction registers while the content widget is
\* visible, hides no widget; so a hover visible at that key-down is visible
\* when the action runs right after it, and the action focuses it.
C25_ShowHoverKeyDownKeepsHover ==
    /\ (/\ hoverOp.op = "keyDown"
        /\ \/ hoverOp.key.resolved.enterMultiChord
           \/ /\ hoverOp.key.resolved.commandId = ShowOrFocusHoverActionID
              /\ hoverOp.pre.content.visible)
       => ~HidContent /\ ~HidGlyph
    /\ (ShowOrFocusHoverRan /\ hoverOp.pre.hasModel /\ hoverOp.prev = "showHoverKeyDown")
       => hoverOp.calls = {"content.focus"}

\* The last handler was a model change, or a scroll change in which
\* scrollTop or scrollLeft changed.
ModelOrScrollChanged ==
    \/ hoverOp.op = "modelChange"
    \/ hoverOp.op = "scrollChange" /\ hoverOp.flag

\* C26: an editor model change, and a scroll change in which scrollTop or
\* scrollLeft changed, hide both widgets and reset hoverClicked to false
\* unless a hide guard applies, in which case they change nothing; a scroll
\* change in which neither changed leaves the widgets and the controller's
\* flags as they were.
C26_ModelAndScrollChangeHide ==
    /\ (ModelOrScrollChanged /\ ~GuardedByColorPicker /\ ~GuardedByDropDown)
       => BothHidden /\ ~hoverClicked /\ isMouseDown = hoverOp.pre.isMouseDown
    /\ (ModelOrScrollChanged /\ (GuardedByColorPicker \/ GuardedByDropDown))
       => NothingHiddenOrCleared /\ hoverOp.calls = {}
    /\ (hoverOp.op = "scrollChange" /\ ~hoverOp.flag)
       => /\ contentWidget = hoverOp.pre.content
          /\ glyphWidget = hoverOp.pre.glyph
          /\ isMouseDown = hoverOp.pre.isMouseDown
          /\ hoverClicked = hoverOp.pre.hoverClicked
          /\ isHoverEnabled = hoverOp.pre.isHoverEnabled
          /\ isHoverSticky = hoverOp.pre.isHoverSticky
          /\ hoverOp.calls = {}

C26_Witness ==
    /\ hoverOp.op = "scrollChange"
    /\ hoverOp.flag
    /\ ~GuardedByColorPicker /\ ~GuardedByDropDown
    /\ hoverOp.pre.content.visible
    /\ hoverOp.pre.glyph.visible
    /\ hoverOp.pre.hoverClicked
    /\ BothHidden /\ ~hoverClicked

\* ------------------------------------------------------------------ properties: screencast mode

\* C27: screencast mode is a singleton toggle. At most one set of overlays
\* and listeners is installed, and it is the one the static disposable holds;
\* a run while the mode is on disposes that set, clears the static and
\* installs nothing; a run while it is off installs exactly one new set; and
\* after two consecutive runs the mode is on exactly if it was before them.
C27_ScreencastSingletonToggle ==
    /\ Cardinality(InstalledSets(screencast)) <= 1
    /\ InstalledSets(screencast) =
          IF ScreencastOn(screencast) THEN {screencast.disposable} ELSE {}
    /\ (screencast.op = "run" /\ screencast.pre.disposable # NoDisposable)
       => /\ screencast.disposable = NoDisposable
          /\ InstalledSets(screencast) = {}
          /\ screencast.stores = screencast.pre.stores
    /\ (screencast.op = "run" /\ screencast.pre.disposable = NoDisposable)
       => /\ screencast.disposable # NoDisposable
          /\ screencast.stores = screencast.pre.stores + 1
          /\ InstalledSets(screencast) = {screencast.disposable}
          /\ screencast.sets[screencast.disposable] = NewScreencastSet
    /\ Len(screencast.runPre) = 2
       => (ScreencastOn(screencast) <=> screencast.runPre[1])

C27_Witness ==
    /\ screencast.op = "run"
    /\ screencast.runPre = <<FALSE, TRUE>>
    /\ screencast.stores = 2
    /\ screencast.scheduled = {1, 2}
    /\ ~ScreencastOn(screencast)
    /\ InstalledSets(screencast) = {}

\* C28: after any sequence of editor mouse-down, mouse-up, mouse-move,
\* mouse-leave, key-down, scroll and model-change events from the initial
\* state, with no showContentHover call from a command, the content widget
\* and the glyph widget are never both shown.
C28_NeverBothWidgetsShown ==
    ~(contentWidget.visible /\ glyphWidget.visible)

C28_Witness ==
    /\ hoverOp.op = "mouseMove"
    /\ hoverOp.flag
    /\ hoverOp.pre.glyph.visible
    /\ ~hoverOp.pre.content.visible
    /\ contentWidget.visible
    /\ ~glyphWidget.visible

\* ------------------------------------------------------------------ properties: overlapping replies

\* C29: when provideReply calls for one (handle, session) overlap, the
\* settlement of one of them removes the map entry although another is still
\* in flight; and while every call in flight for a pair is one that such a
\* settlement passed over (none was issued since), acceptResponseProgress
\* for that pair invokes no callback.
C29_SettlementSilencesTheOverlappingCall ==
    /\ (lastOp.op = "settle" /\ InFlight(lastOp.handle, lastOp.session) # {})
       => CompositeKey(lastOp.handle, lastOp.session)
             \notin DOMAIN activeRequestProgressCallbacks
    /\ (/\ lastOp.op = "accept"
        /\ InFlight(lastOp.handle, lastOp.session) # {}
        /\ \A c \in InFlight(lastOp.handle, lastOp.session) : calls[c].settledOver)
       => lastOp.invoked = <<>>

C29_Witness ==
    /\ lastOp.op = "accept"
    /\ \E c \in DOMAIN calls :
          /\ InFlight(lastOp.handle, lastOp.session) = {c}
          /\ calls[c].settledOver
          /\ \E d \in DOMAIN calls : d < c /\ KeyOf(d) = KeyOf(c) /\ calls[d].remote # "pending"
    /\ lastOp.invoked = <<>>

\* ------------------------------------------------------------------ properties: the composite key

\* The call whose callback the map holds under key k belongs to another pair
\* than (handle, sessionId).
OfAnotherPair(k, handle, sessionId) ==
    LET c == activeRequestProgressCallbacks[k]
    IN  calls[c].handle # handle \/ calls[c].session # sessionId

\* C30: the composite key of an integer handle and an integer session id is
\* injective: different pairs have different keys; so acceptResponseProgress
\* invokes only the callback of a provideReply of its own handle and
\* session, and the settlement of one pair's request leaves every other
\* pair's entry in the map.
C30_CompositeKeyInjective ==
    [][/\ \A h1 \in KeyHandles, h2 \in KeyHandles, s1 \in KeySessions, s2 \in KeySessions :
             CompositeKey(h1, s1) = CompositeKey(h2, s2) => h1 = h2 /\ s1 = s2
       /\ lastOp'.op = "accept"
             => \A i \in 1..Len(lastOp'.invoked) :
                   /\ calls[lastOp'.invoked[i].call].handle = lastOp'.handle
                   /\ calls[lastOp'.invoked[i].call].session = lastOp'.session
       /\ lastOp'.op = "settle"
             => \A k \in DOMAIN activeRequestProgressCallbacks :
                   OfAnotherPair(k, lastOp'.handle, lastOp'.session)
                   => /\ k \in DOMAIN activeRequestProgressCallbacks'
                      /\ activeRequestProgressCallbacks'[k] = activeRequestProgressCallbacks[k]
      ]_vars

C30_Witness ==
    /\ lastOp.op = "settle"
    /\ lastOp.handle = 1 /\ lastOp.session = 11
    /\ \E c \in DOMAIN calls :
          /\ calls[c].handle = 11 /\ calls[c].session = 1
          /\ calls[c].remote = "pending"
          /\ CompositeKey(11, 1) \in DOMAIN activeRequestProgressCallbacks
          /\ activeRequestProgressCallbacks[CompositeKey(11, 1)] = c

====
